---- MODULE Spec2Model ----
(***************************************************************************)
(* Scroll progress tracking of the landing page: the Hero component's      *)
(* calculateScrollValues / horizontal tracker, the VerticalNavigation      *)
(* section-completion evaluator and the HorizontalScroll pin tween.        *)
(*                                                                         *)
(* Lengths are measured in twentieths of the viewport height, so that the  *)
(* factors 1.3, 0.05, 0.1, 0.15, 0.3 and 0.45 of window.innerHeight are    *)
(* whole numbers.  JavaScript numbers are modelled as exact fractions      *)
(* [n, d] with d > 0; a zero denominator encodes the non-finite results    *)
(* of a division by zero (Infinity, -Infinity, NaN).  Rounding of IEEE     *)
(* doubles is not modelled.                                                *)
(***************************************************************************)
EXTENDS Integers, Sequences, FiniteSets, TLC

(* ------------------------------ bounds --------------------------------- *)

\* largest scroll offset explored
MaxScrollY == 42
\* largest distance covered by one scroll event of the wheel / touch kind
MaxScrollDelta == 1
\* most scroll events delivered between two rendered frames
MaxPendingFrames == 2
\* the driver-reported raw progress values are k / RawDen
RawDen == 8
\* offset whose reported section is remembered for comparison
ProbeOffset == 12

\* the Loader is given 0..MaxAssets assets
MaxAssets == 4

\* seconds of the Intro animation followed one by one
MaxSeconds == 8

\* the manager is initialised at most MaxRegistrations times
MaxRegistrations == 3

\* pending 200 ms timers of the temporary overflow lock
MaxLockTimers == 2

(* --------------------------- exact fractions --------------------------- *)

Abs(x) == IF x < 0 THEN -x ELSE x

RECURSIVE Gcd(_, _)
Gcd(a, b) == IF b = 0 THEN a ELSE Gcd(b, a % b)

\* the fraction n/d in lowest terms with a positive denominator;
\* d = 0 gives Infinity ([1,0]), -Infinity ([-1,0]) or NaN ([0,0])
Rat(n, d) ==
  IF d = 0 THEN [n |-> IF n > 0 THEN 1 ELSE IF n < 0 THEN -1 ELSE 0, d |-> 0]
  ELSE LET s == IF d < 0 THEN -1 ELSE 1
           g == Gcd(Abs(n), Abs(d))
       IN  [n |-> (s * n) \div g, d |-> (s * d) \div g]

Num(k) == [n |-> k, d |-> 1]
IsFinite(r) == r.d # 0
RAdd(a, b) == Rat(a.n * b.d + b.n * a.d, a.d * b.d)
RSub(a, b) == Rat(a.n * b.d - b.n * a.d, a.d * b.d)
RMul(a, b) == Rat(a.n * b.n, a.d * b.d)
\* JavaScript's / : a zero divisor gives a non-finite value, never an exception
RDiv(a, b) == Rat(a.n * b.d, a.d * b.n)
RLt(a, b) == a.n * b.d < b.n * a.d
RLe(a, b) == a.n * b.d <= b.n * a.d
RMin(a, b) == IF RLt(b, a) THEN b ELSE a
RMax(a, b) == IF RLt(a, b) THEN b ELSE a
RAbs(a) == [n |-> Abs(a.n), d |-> a.d]
\* Math.floor
RFloor(a) == a.n \div a.d
\* a % 1 in JavaScript: the remainder takes the sign of the dividend
RMod1(a) ==
  LET trunc == IF a.n >= 0 THEN a.n \div a.d ELSE -((-a.n) \div a.d)
  IN  RSub(a, Num(trunc))
\* Math.min(1, Math.max(0, x))
Clamp01(x) == RMin(Num(1), RMax(Num(0), x))
\* Math.min(100, Math.max(0, x))
Clamp100(x) == RMin(Num(100), RMax(Num(0), x))

Min(a, b) == IF a < b THEN a ELSE b
Max(a, b) == IF a > b THEN a ELSE b

(* ------------------------- static configuration ------------------------ *)

\* navigationThemes of Hero
navigationThemes == << [id |-> 1], [id |-> 2], [id |-> 3], [id |-> 4] >>

\* `theme-${id}`
ThemeSectionId(id) ==
  CASE id = 1 -> "theme-1" [] id = 2 -> "theme-2"
    [] id = 3 -> "theme-3" [] id = 4 -> "theme-4"

\* navItem.id.startsWith('theme-')
IsThemeId(s) == s \in {"theme-1", "theme-2", "theme-3", "theme-4"}

\* parseInt(id.replace('theme-', ''))
ThemeIdOf(s) ==
  CASE s = "theme-1" -> 1 [] s = "theme-2" -> 2
    [] s = "theme-3" -> 3 [] s = "theme-4" -> 4

\* a breakpoint table whose theme positions do not grow with the index: the
\* second and the fourth theme change places
NavigationConfigSwapped(vh) ==
  LET horizontalSectionStartApprox == (13 * vh) \div 10
  IN  << [id |-> "home", scrollPosition |-> 0],
         [id |-> "theme-1", scrollPosition |-> horizontalSectionStartApprox],
         [id |-> "theme-2", scrollPosition |-> horizontalSectionStartApprox + (3 * vh) \div 20],
         [id |-> "theme-3", scrollPosition |-> horizontalSectionStartApprox + vh \div 10],
         [id |-> "theme-4", scrollPosition |-> horizontalSectionStartApprox + vh \div 20] >>

\* navigationConfig of Hero for a viewport height vh (a multiple of 20)
NavigationConfigFor(vh) ==
  LET horizontalSectionStartApprox == (13 * vh) \div 10
  IN  << [id |-> "home", scrollPosition |-> 0],
         [id |-> "theme-1", scrollPosition |-> horizontalSectionStartApprox],
         [id |-> "theme-2", scrollPosition |-> horizontalSectionStartApprox + vh \div 20],
         [id |-> "theme-3", scrollPosition |-> horizontalSectionStartApprox + vh \div 10],
         [id |-> "theme-4", scrollPosition |-> horizontalSectionStartApprox + (3 * vh) \div 20] >>

\* findIndex: the first index whose item satisfies the test, 0 for -1
IndexOfSection(cfg, sid) ==
  IF \E i \in 1..Len(cfg) : cfg[i].id = sid
  THEN CHOOSE i \in 1..Len(cfg) : cfg[i].id = sid /\ \A j \in 1..(i-1) : cfg[j].id # sid
  ELSE 0

IndexOfTheme(themes, tid) ==
  IF \E i \in 1..Len(themes) : themes[i].id = tid
  THEN CHOOSE i \in 1..Len(themes) : themes[i].id = tid /\ \A j \in 1..(i-1) : themes[j].id # tid
  ELSE 0

(* ------------------- geometry supplied by the browser ------------------ *)

\* The pin ScrollTrigger of HorizontalScroll has no `start`, so it starts
\* when the section's top reaches the top of the viewport ("top top", the
\* default of a pinning trigger) and ends `end: "+=" + width` later.
PinStart(top) == top
PinEnd(top, len) == top + len

\* ScrollTrigger.progress: the scroll position relative to [start, end],
\* clipped to [0, 1]
TriggerProgress(y, start, end) ==
  IF end = start THEN (IF y >= start THEN Num(1) ELSE Num(0))
  ELSE Clamp01(Rat(y - start, end - start))

\* The tracker of Hero copies vars.start (undefined) and vars.end of the pin
\* trigger; without a pin its default start is "top bottom": the section's
\* top reaching the bottom of the viewport.
TrackerStart(top, vh) == Max(0, top - vh)
TrackerEnd(top, vh, len) == TrackerStart(top, vh) + len

\* horizontalSectionEl.getBoundingClientRect().top + scrollY: the section
\* sits at its natural top before the pin, travels with the viewport while
\* pinned and rests at the end of the pin spacer afterwards
ElementPageTop(y, pinned, top, len) ==
  IF ~pinned \/ y <= PinStart(top) THEN top
  ELSE IF y >= PinEnd(top, len) THEN PinEnd(top, len)
  ELSE y

(* ------------------- Hero.calculateScrollValues ------------------------ *)

\* an overall progress measured against the whole document height instead
\* of the scrollable height
OverallProgressOfDocument(y, vh, doc, inH, hEl, pin, top, len) ==
  LET pinDuration == PinEnd(top, len) - PinStart(top)
      cur == IF inH /\ hEl /\ pin /\ doc > 0 /\ pinDuration > 0
             THEN RAdd(Rat(PinStart(top), doc),
                       RMul(TriggerProgress(y, PinStart(top), PinEnd(top, len)),
                            Rat(pinDuration, doc)))
             ELSE IF doc > 0 THEN Clamp01(Rat(y, doc)) ELSE Num(0)
  IN  Clamp01(cur)

\* an overall progress that divides by maxScrollableHeight without
\* looking at its sign
OverallProgressUnguarded(y, vh, doc, inH, hEl, pin, top, len) ==
  LET maxScrollableHeight == doc - vh
      base == Clamp01(Rat(y, maxScrollableHeight))
      pinDuration == PinEnd(top, len) - PinStart(top)
      cur == IF inH /\ hEl /\ pin
             THEN RAdd(Rat(PinStart(top), maxScrollableHeight),
                       RMul(TriggerProgress(y, PinStart(top), PinEnd(top, len)),
                            Rat(pinDuration, maxScrollableHeight)))
             ELSE base
  IN  Clamp01(cur)

\* an overall progress that is the clamped scroll fraction in the pinned
\* phase too
OverallProgressOfOffsetOnly(y, vh, doc, inH, hEl, pin, top, len) ==
  LET maxScrollableHeight == doc - vh
  IN  IF maxScrollableHeight > 0
      THEN Clamp01(Rat(y, maxScrollableHeight))
      ELSE Num(0)

\* lines 240-260: the value handed to setOverallPageScrollProgress
OverallProgress(y, vh, doc, inH, hEl, pin, top, len) ==
  LET maxScrollableHeight == doc - vh
      base == IF maxScrollableHeight > 0
              THEN Clamp01(Rat(y, maxScrollableHeight))
              ELSE Num(0)
      pinDuration == PinEnd(top, len) - PinStart(top)
      cur == IF inH /\ hEl /\ pin /\ maxScrollableHeight > 0 /\ pinDuration > 0
             THEN RAdd(Rat(PinStart(top), maxScrollableHeight),
                       RMul(TriggerProgress(y, PinStart(top), PinEnd(top, len)),
                            Rat(pinDuration, maxScrollableHeight)))
             ELSE base
  IN  Clamp01(cur)

\* lines 276-287: may navItem take part in the closest-section search
IsConsiderable(item, y, vh, hEl, pin, top, len) ==
  IF IsThemeId(item.id)
  THEN IF hEl
       THEN LET rectTop == ElementPageTop(y, pin, top, len)
                rectBottom == rectTop + vh
            IN  \* windowHeight * 0.3 = 3 * vh / 10, compared without rounding
                10 * y < 10 * rectTop - 3 * vh \/ 10 * y > 10 * rectBottom + 3 * vh
       ELSE FALSE
  ELSE TRUE

\* lines 272-296: the loop keeping the first item of strictly least distance;
\* minDistance = -1 stands for Infinity
RECURSIVE ClosestFrom(_, _, _, _, _, _, _, _, _)
ClosestFrom(i, best, cfg, y, vh, hEl, pin, top, len) ==
  IF i > Len(cfg) THEN best
  ELSE LET distance == Abs(y - cfg[i].scrollPosition)
           take == IsConsiderable(cfg[i], y, vh, hEl, pin, top, len)
                     /\ (best.minDistance = -1 \/ distance < best.minDistance)
           nb == IF take THEN [closestSectionId |-> cfg[i].id, minDistance |-> distance]
                 ELSE best
       IN  ClosestFrom(i + 1, nb, cfg, y, vh, hEl, pin, top, len)

\* a search in which every breakpoint takes part, the theme sections near
\* the horizontal section included
ClosestAmongAll(cfg, y, vh, hEl, pin, top, len) ==
  LET dist(i) == Abs(y - cfg[i].scrollPosition)
      first == CHOOSE i \in 1..Len(cfg) :
                 /\ \A j \in 1..Len(cfg) : dist(i) <= dist(j)
                 /\ \A j \in 1..(i - 1) : dist(i) < dist(j)
  IN  [closestSectionId |-> cfg[first].id, minDistance |-> dist(first)]

Closest(cfg, y, vh, hEl, pin, top, len) ==
  ClosestFrom(1, [closestSectionId |-> cfg[1].id, minDistance |-> -1],
              cfg, y, vh, hEl, pin, top, len)

\* an evaluation that, with no breakpoint within the threshold, steps one
\* section back towards the first instead of keeping the captured one
SectionAfterDrifting(cur, cfg, themes, activePanel, y, vh, inH, hEl, pin, top, len) ==
  IF inH /\ hEl
  THEN IF activePanel + 1 \in 1..Len(themes)
       THEN ThemeSectionId(themes[activePanel + 1].id)
       ELSE cur
  ELSE LET c == Closest(cfg, y, vh, hEl, pin, top, len)
           near == c.minDistance # -1 /\ 20 * c.minDistance < 9 * vh
       IN  IF near THEN c.closestSectionId
           ELSE cfg[Max(1, IndexOfSection(cfg, cur) - 1)].id

\* lines 262-304: the section after the evaluation, given the section `cur`
\* captured by the closure
SectionAfter(cur, cfg, themes, activePanel, y, vh, inH, hEl, pin, top, len) ==
  IF inH /\ hEl
  THEN IF activePanel + 1 \in 1..Len(themes)
       THEN ThemeSectionId(themes[activePanel + 1].id)
       ELSE cur
  ELSE LET c == Closest(cfg, y, vh, hEl, pin, top, len)
           \* proximityThreshold = windowHeight * 0.45 = 9 * vh / 20
           near == c.minDistance # -1 /\ 20 * c.minDistance < 9 * vh
       IN  IF near /\ cur # c.closestSectionId THEN c.closestSectionId
           ELSE IF 20 * y < 20 * cfg[1].scrollPosition + 9 * vh /\ cur # cfg[1].id
                THEN cfg[1].id
                ELSE cur

(* ---------------- the panel mapping of the onUpdate handlers ----------- *)

\* a panel mapping whose index is only limited from above
PanelUpdateWithoutFloorAtZero(progress, totalPanels) ==
  LET scaled == RMul(progress, Num(totalPanels))
      idx0 == RFloor(scaled)
      idx1 == Min(idx0, totalPanels - 1)
  IN  [activePanel |-> idx1,
       progress |-> IF totalPanels > 0 THEN RMod1(scaled) ELSE Num(0)]

\* a panel mapping that publishes the raw progress of the whole range as the
\* progress of the active panel
PanelUpdateWithRawProgress(progress, totalPanels) ==
  LET scaled == RMul(progress, Num(totalPanels))
      idx0 == RFloor(scaled)
      idx1 == Min(idx0, totalPanels - 1)
      idx2 == Max(0, idx1)
  IN  [activePanel |-> idx2,
       progress |-> IF totalPanels > 0 THEN progress ELSE Num(0)]

\* Hero, setupHorizontalTracking.onUpdate (lines 340-354)
PanelUpdate(progress, totalPanels) ==
  LET scaled == RMul(progress, Num(totalPanels))
      idx0 == RFloor(scaled)
      idx1 == Min(idx0, totalPanels - 1)
      idx2 == Max(0, idx1)
  IN  [activePanel |-> idx2,
       progress |-> IF totalPanels > 0 THEN RMod1(scaled) ELSE Num(0)]

\* HorizontalScroll, onUpdate of the pin tween (lines 385-399)
HSPanelUpdate(progress, totalPanels) ==
  LET scaled == RMul(progress, Num(totalPanels))
      idx0 == RFloor(scaled)
      idx1 == Min(idx0, totalPanels - 1)
      idx2 == Max(0, idx1)
  IN  [activePanel |-> idx2,
       progress |-> IF totalPanels > 0 THEN RMod1(scaled) ELSE Num(0)]

\* HorizontalScroll lines 344-384: the numbers computed when the pin tween is
\* set up; no tween is made for zero panels
HSTweenSetup(n) ==
  IF n = 0
  THEN [created |-> FALSE, xPercent |-> Num(0), snapTo |-> Num(0)]
  ELSE [created |-> TRUE,
        xPercent |-> RDiv(Num(-100 * (n - 1)), Num(IF n # 0 THEN n ELSE 1)),
        snapTo |-> RDiv(Num(1), Num(n - 1))]

(* ------------- VerticalNavigation: section completion ------------------ *)

\* calculateThemeSectionCompletion (lines 24-38)
calculateThemeSectionCompletion(currentNavItemId, themes, hp) ==
  LET themeIndexInParentArray == IndexOfTheme(themes, ThemeIdOf(currentNavItemId)) - 1
  IN  IF themeIndexInParentArray = hp.activePanel THEN RMul(hp.progress, Num(100))
      ELSE IF themeIndexInParentArray < hp.activePanel THEN Num(100)
      ELSE Num(0)

\* a completion of the home section measured against the viewport height
\* instead of the next breakpoint
calculateHomeSectionCompletionOfViewport(currentScrollY, navigationSections, vh) ==
  IF vh > 0
  THEN Clamp100(RMul(Rat(currentScrollY, vh), Num(100)))
  ELSE IF currentScrollY > 0 THEN Num(100) ELSE Num(0)

\* calculateHomeSectionCompletion (lines 40-50)
calculateHomeSectionCompletion(currentScrollY, navigationSections, vh) ==
  LET homeSectionScrollHeight ==
        IF Len(navigationSections) >= 2 THEN navigationSections[2].scrollPosition ELSE vh
  IN  IF homeSectionScrollHeight > 0
      THEN Clamp100(RMul(Rat(currentScrollY, homeSectionScrollHeight), Num(100)))
      ELSE IF currentScrollY > 0 THEN Num(100) ELSE Num(0)

\* calculateGeneralSectionCompletion (lines 52-77); activeNavIndex is 1-based here
calculateGeneralSectionCompletion(currentScrollY, activeNavIndex, navigationSections, maxScrollableHeight, vh) ==
  LET sectionStartPos == navigationSections[activeNavIndex].scrollPosition
      sectionEndPos == IF activeNavIndex + 1 <= Len(navigationSections)
                       THEN navigationSections[activeNavIndex + 1].scrollPosition
                       ELSE maxScrollableHeight + vh
      sectionScrollRange == sectionEndPos - sectionStartPos
  IN  IF sectionScrollRange > 0
      THEN Clamp100(RMul(Rat(currentScrollY - sectionStartPos, sectionScrollRange), Num(100)))
      ELSE IF currentScrollY >= sectionStartPos THEN Num(100) ELSE Num(0)

\* updateSectionProgressState (lines 107-132): the value given to
\* setSectionProgress by a closure c = [currentSection, isIn, hp]; the
\* window is read when the callback runs.  `old` is kept when the section
\* is not in the table.
SectionProgressOf(c, old, y, vh, doc, navigationSections, themes) ==
  LET activeNavIndex == IndexOfSection(navigationSections, c.currentSection)
      id == navigationSections[activeNavIndex].id
      completion ==
        IF c.isIn /\ IsThemeId(id)
        THEN calculateThemeSectionCompletion(id, themes, c.hp)
        ELSE IF id = "home"
             THEN calculateHomeSectionCompletion(y, navigationSections, vh)
             ELSE calculateGeneralSectionCompletion(y, activeNavIndex, navigationSections,
                                                    doc - vh, vh)
  IN  IF activeNavIndex >= 1
      THEN [current |-> activeNavIndex - 1, percentage |-> Clamp100(completion)]
      ELSE old

(* ------------------------------- state --------------------------------- *)

VARIABLES
  windowHeight,               \* window.innerHeight
  docScrollHeight,            \* document.documentElement.scrollHeight
  sectionTop,                 \* natural page offset of #horizontal-scroll-section
  pinLength,                  \* scroll distance of the pin (end - start)
  scrollY,                    \* window.scrollY
  heroMounted,                \* Hero (with its children) is mounted
  navigationConfig,           \* Hero: useMemo(..., [])
  currentSection,             \* Hero state
  horizontalProgress,         \* Hero state {activePanel, progress}
  isInHorizontalSection,      \* Hero state
  overallPageScrollProgress,  \* Hero state
  rafId,                      \* Hero: a calculateScrollValues frame is requested
  setupTimer,                 \* Hero: pending setTimeout of the tracker set-up
  horizontalTrackerST,        \* Hero: the tracker ScrollTrigger exists
  trackerProgress,            \* progress of the tracker ScrollTrigger
  pinTrigger,                 \* HorizontalScroll: the pin ScrollTrigger exists
  isVisible,                  \* VerticalNavigation state
  visibleTimer,               \* VerticalNavigation: pending 2000 ms timer
  sectionProgress,            \* VerticalNavigation state {current, percentage}
  navFrames,                  \* requested frames of updateSectionProgressState,
                              \*   each with the props its closure captured
  hsPanels,                   \* HorizontalScroll: panels.length
  hsTween,                    \* HorizontalScroll: numbers of the pin tween
  hsProgress,                 \* HorizontalScroll state horizontalProgress
  heroRuns,                   \* calculateScrollValues runs of the last frame
  navRuns,                    \* updateSectionProgressState runs of the last frame
  evaluated,                  \* the last step ran calculateScrollValues
  pushed,                     \* state slots whose setter made React re-render in the last step
  repeated,                   \* the last step ran calculateScrollValues on the inputs
                              \*   of the run before it
  evalY,                      \* window.scrollY read by the latest calculateScrollValues
  scrollsSinceFrame,          \* scroll events since the last rendered frame
  probe                       \* section reported by the latest evaluation outside the
                              \*   pinned phase at ProbeOffset ("none" before the first)

layoutVars == << windowHeight, docScrollHeight, sectionTop, pinLength >>
heroVars == << scrollY, heroMounted, navigationConfig, currentSection, horizontalProgress,
               isInHorizontalSection, overallPageScrollProgress, rafId, setupTimer,
               horizontalTrackerST, trackerProgress, pinTrigger >>
navVars == << isVisible, visibleTimer, sectionProgress, navFrames >>
hsVars == << hsPanels, hsTween, hsProgress >>
obsVars == << heroRuns, navRuns, evaluated, repeated, pushed, evalY, scrollsSinceFrame, probe >>

\* the rest of the page
VARIABLES
  phase,                      \* usePhase store: 'loader' | 'intro' | 'hero'
  prefersReduced,             \* Loader: matchMedia('(prefers-reduced-motion: reduce)')
  loaderAssets,               \* Loader: assets.length
  loaderLoaded,               \* Loader: `loaded` of the preload effect
  loaderFrame,                \* Loader: requested frame of () => setDone(true)
  loaderDone,                 \* Loader state `done`
  loaderDelayedCall,          \* Loader: pending gsap.delayedCall(wait, ...)
  loaderTransitionTl,         \* Loader: transitionTl is playing
  introLoaded,                \* Intro: loadedCount of the preload effect
  imagesPreloaded,            \* Intro state
  introStage,                 \* Intro: "idle" | "running" (animation started, exit
                              \*   delayedCall pending) | "exit" (exitTl playing)
  introElapsed                \* seconds of gsap time since startTimeRef

\* the shared scrollManager, gsap's ticker, the window and the Navbar
VARIABLES
  smLenis,          \* scrollManager.ts line 21: this.lenis is not null
  smIsDestroyed,    \* scrollManager.ts line 23
  tickerCallbacks,  \* callbacks the manager has added to gsap.ticker (line 72)
  resizeListeners,  \* 'resize' listeners the manager has added to window (line 118)
  navbarTrigger,    \* Navbar.tsx line 35: the trigger on 'body' exists
  introComplete,    \* part_003 line 54: the prop Hero receives and hands to Navbar
  lenisRafCalls,    \* lenis.raf calls made by the last tick of gsap.ticker (line 74)
  pendingRefreshes  \* 100 ms timers waiting to call ScrollTrigger.refresh (line 120)

managerVars == << smLenis, smIsDestroyed, tickerCallbacks, resizeListeners, navbarTrigger,
                  introComplete, lenisRafCalls, pendingRefreshes >>

\* MarqueeSection and its three Marquees
VARIABLES
  marquee,        \* per Marquee: programmaticPauseRef, userInteractionPauseRef.paused,
                  \*   animationRef.current.paused()  (Intro.tsx lines 434-439)
  pointerOver,    \* the Marquee whose wrapper the pointer is over, or "none"
  activeFlipId,   \* part_004 line 1834: "none" for null, otherwise the Marquee of the image
  isAnimating,    \* part_004 line 1843: isAnimating.current
  openTl,         \* the open timeline (line 1890) is playing
  closeTl,        \* the close timeline (line 1973) is playing
  fsPointerEvents, \* style.pointerEvents of the mounted fullscreen container
  isDesktop,      \* part_004 line 1832: useMediaQuery("(min-width: 768px)")
  lastClick,      \* what the last image click did: "none" | "accepted" | "ignored"
  playedHovering  \* Marquees whose playAnimation was last called while they were
                  \*   programmatically paused and hovered

marqueeVars == << marquee, pointerOver, activeFlipId, isAnimating, openTl, closeTl,
                  fsPointerEvents, isDesktop, lastClick, playedHovering >>

\* a click on the vertical navigation
VARIABLES
  clickedSection,  \* the sectionId of the last handleVerticalNavClick, or "none"
  targetScrollY    \* the offset it handed to scrollManager.scrollTo

clickVars == << clickedSection, targetScrollY >>

\* the overlays and the inline styles they write
VARIABLES
  bodyOverflow,       \* document.body.style.overflow
  bodyHeight,         \* document.body.style.height
  htmlOverflow,       \* document.documentElement.style.overflow
  bodyBox,            \* document.body.style position, top, left and width
  lockTimers,         \* pending timers of part_004 lines 195-199
  galleryOpen,        \* HorizontalScroll: activeGallery is not null
  galleryStored,      \* GalleryView lines 2300-2303: the originalBody* constants
  galleryViewerOpen,  \* GalleryView: fullscreenImage.isOpen
  viewerOpen,         \* HorizontalScrollSection: fullscreenImage.isOpen
  sheetOpen,          \* SlideUpSheet: isOpen
  sheetStored,        \* SlideUpSheet: originalBodyStylesRef.current
  stylesBefore        \* the styles when the first overlay was opened

overlayVars == << bodyOverflow, bodyHeight, htmlOverflow, bodyBox, lockTimers, galleryOpen,
                  galleryStored, galleryViewerOpen, viewerOpen, sheetOpen, sheetStored,
                  stylesBefore >>

restVars == << marqueeVars, clickVars, overlayVars >>

phaseVars == << phase, prefersReduced, loaderAssets, loaderLoaded, loaderFrame, loaderDone,
                loaderDelayedCall, loaderTransitionTl, introLoaded, imagesPreloaded,
                introStage, introElapsed >>
pageVars == << phaseVars, managerVars, restVars >>
vars == << layoutVars, heroVars, navVars, hsVars, obsVars, pageVars >>

\* a long page with the pinned section two viewports down
LongPage == [doc |-> 240, top |-> 40, len |-> 30]

\* the page layouts explored: the long page and a page whose pinned section
\* follows the first viewport and ends the document
Layouts == { LongPage, [doc |-> 60, top |-> 20, len |-> 20] }

\* viewport heights explored (multiples of 20)
WindowHeights == { 20 }

\* panel counts of HorizontalScroll explored
PanelCounts == { 0, 1, 2, 4 }

\* raw progress values a driver may report, with one transient value on
\* either side of [0, 1]
RawProgressValues == { Rat(k, RawDen) : k \in (-1)..(RawDen + 1) }

SectionIds == { "home", "theme-1", "theme-2", "theme-3", "theme-4" }

(* --------------------------- derived values ---------------------------- *)

maxScrollableHeight == docScrollHeight - windowHeight

\* document.querySelector('#horizontal-scroll-section'): rendered by Hero
horizontalSectionEl == heroMounted

\* getMainHorizontalPinTrigger (lines 22-26)
getMainHorizontalPinTrigger == horizontalSectionEl /\ pinTrigger

\* calculateScrollValues (lines 233-305) run by a closure that captured
\* (cur, inH, hp): the values given to the two state setters
calculateScrollValues(cur, inH, hp, y) ==
  [ overall |-> OverallProgress(y, windowHeight, docScrollHeight, inH,
                                horizontalSectionEl, getMainHorizontalPinTrigger,
                                sectionTop, pinLength),
    section |-> SectionAfter(cur, navigationConfig, navigationThemes, hp.activePanel,
                             y, windowHeight, inH, horizontalSectionEl,
                             getMainHorizontalPinTrigger, sectionTop, pinLength) ]

\* the tracker ScrollTrigger reacting to the scroll position y: onUpdate and
\* the four toggle callbacks fire when its progress changed (lines 336-359)
TrackerTick(y) ==
  LET q == TriggerProgress(y, TrackerStart(sectionTop, windowHeight),
                           TrackerEnd(sectionTop, windowHeight, pinLength))
  IN  IF q # trackerProgress
      THEN [fired |-> TRUE, q |-> q,
            hp |-> PanelUpdate(q, Len(navigationThemes)),
            inH |-> (RLt(Num(0), q) /\ RLt(q, Num(1)))]
      ELSE [fired |-> FALSE, q |-> trackerProgress,
            hp |-> horizontalProgress, inH |-> isInHorizontalSection]

\* the props captured by the VerticalNavigation effect of a render
NavClosure(cur, inH, hp) == [currentSection |-> cur, isIn |-> inH, hp |-> hp]

NavUpdate(c, y) ==
  SectionProgressOf(c, sectionProgress, y, windowHeight, docScrollHeight,
                    navigationConfig, navigationThemes)

\* React re-renders for a primitive state only when the value differs
PushIf(name, changed) == IF changed THEN {name} ELSE {}

ProbeAfter(ran, inH, y, section) ==
  IF probe # "off" /\ ran /\ ~inH /\ y = ProbeOffset THEN section ELSE probe

(* ----------------------------- initial state --------------------------- *)

\* the rest of the page as it is once Hero is shown: the phase is 'hero',
\* Loader and Intro are gone
\* the three Marquees of MarqueeSection (part_004 lines 1819-1821)
Marquees == { "mq1", "mq2", "mq3" }

\* a Marquee just mounted with autoplay (default true) and pauseOnHover:
\* programmaticPauseRef false, userInteractionPauseRef.paused = !autoplay,
\* the animation created with paused: initialPausedState (Intro.tsx lines
\* 438-439 and 584-587)
initialPausedState(programmatic, userPaused) == programmatic \/ userPaused

FreshMarquee ==
  [programmatic |-> FALSE, userPaused |-> FALSE, paused |-> initialPausedState(FALSE, FALSE)]

\* no inline position, top, left and width on the body
NoInlineBox == [position |-> "", top |-> "", left |-> "", width |-> ""]

\* MarqueeSection as mounted, nothing fullscreen, the pointer elsewhere; no
\* overlay open and no inline style on body and html
InitRest ==
  /\ marquee = [m \in Marquees |-> FreshMarquee]
  /\ pointerOver = "none"
  /\ activeFlipId = "none"
  /\ isAnimating = FALSE
  /\ openTl = FALSE
  /\ closeTl = FALSE
  /\ fsPointerEvents = "auto"
  /\ isDesktop = TRUE
  /\ lastClick = "none"
  /\ playedHovering = {}
  /\ clickedSection = "none"
  /\ targetScrollY = Num(0)
  /\ bodyOverflow = ""
  /\ bodyHeight = ""
  /\ htmlOverflow = ""
  /\ bodyBox = NoInlineBox
  /\ lockTimers = 0
  /\ galleryOpen = FALSE
  /\ galleryStored = NoInlineBox
  /\ galleryViewerOpen = FALSE
  /\ viewerOpen = FALSE
  /\ sheetOpen = FALSE
  /\ sheetStored = [overflow |-> "", height |-> "", htmlOverflow |-> ""]
  /\ stylesBefore = [overflow |-> "", height |-> "", box |-> NoInlineBox]

InitPage ==
  /\ InitRest
  /\ phase = "hero"
  /\ prefersReduced = FALSE
  /\ loaderAssets = 0
  /\ loaderLoaded = 0
  /\ loaderFrame = FALSE
  /\ loaderDone = FALSE
  /\ loaderDelayedCall = FALSE
  /\ loaderTransitionTl = FALSE
  /\ introLoaded = 0
  /\ imagesPreloaded = FALSE
  /\ introStage = "idle"
  /\ introElapsed = 0
  /\ smLenis = TRUE
  /\ smIsDestroyed = FALSE
  /\ tickerCallbacks = 1
  /\ resizeListeners = 1
  /\ navbarTrigger = TRUE
  /\ introComplete = TRUE
  /\ lenisRafCalls = 0
  /\ pendingRefreshes = 0

\* Hero has just been mounted with introComplete = true on a page scrolled to
\* the top: the effects have run their initial calculation, the tracker
\* set-up and the navigation's visibility are waiting for their timers
InitCommon ==
  /\ \E l \in Layouts :
       /\ docScrollHeight = l.doc
       /\ sectionTop = l.top
       /\ pinLength = l.len
  /\ windowHeight \in WindowHeights
  /\ scrollY = 0
  /\ heroMounted = TRUE
  /\ navigationConfig = NavigationConfigFor(windowHeight)
  /\ currentSection = "home"
  /\ horizontalProgress = [activePanel |-> 0, progress |-> Num(0)]
  /\ isInHorizontalSection = FALSE
  /\ overallPageScrollProgress = Num(0)
  /\ rafId = FALSE
  /\ setupTimer = "t100"
  /\ horizontalTrackerST = FALSE
  /\ trackerProgress = Num(0)
  /\ pinTrigger = TRUE
  /\ isVisible = FALSE
  /\ visibleTimer = TRUE
  /\ sectionProgress = [current |-> 0, percentage |-> Num(0)]
  /\ navFrames = << >>
  /\ hsProgress = [activePanel |-> 0, progress |-> Num(0)]
  /\ heroRuns = 0
  /\ navRuns = 0
  /\ evaluated = FALSE
  /\ repeated = FALSE
  /\ pushed = {}
  /\ evalY = 0
  /\ scrollsSinceFrame = 0
  /\ InitPage

(* ------------------------------- actions ------------------------------- *)

\* the page can be scrolled by a wheel / touch step or jump to the top or
\* the bottom (Home / End keys); the browser keeps window.scrollY within
\* [0, scrollHeight - innerHeight]
ScrollTargets ==
  { y \in 0..Min(MaxScrollY, Max(0, maxScrollableHeight)) :
      y # scrollY /\ Abs(y - scrollY) <= MaxScrollDelta }
    \cup ({ 0, Min(MaxScrollY, Max(0, maxScrollableHeight)) } \ { scrollY })

\* A scroll event.  The ScrollTriggers are updated first (scrollManager lines
\* 110-116): the pin tween's onUpdate, the tracker's onUpdate and toggle
\* callbacks; React commits, which re-runs the effects whose dependencies
\* changed (Hero line 319, VerticalNavigation line 140) with their initial
\* calculation; then the window's scroll listeners request their frames
\* (Hero lines 307-312, VerticalNavigation lines 134-135).
ScrollEvent(y) ==
  /\ heroMounted
  /\ scrollsSinceFrame < MaxPendingFrames
  /\ \E t \in { IF horizontalTrackerST THEN TrackerTick(y)
               ELSE [fired |-> FALSE, q |-> trackerProgress,
                     hp |-> horizontalProgress, inH |-> isInHorizontalSection] } :
     \E ev \in { calculateScrollValues(currentSection, t.inH, t.hp, y) } :
     LET depsChanged == heroMounted /\
                          (t.inH # isInHorizontalSection
                             \/ t.hp.activePanel # horizontalProgress.activePanel)
         newSection == IF depsChanged THEN ev.section ELSE currentSection
         newOverall == IF depsChanged THEN ev.overall ELSE overallPageScrollProgress
         navRerun == heroMounted /\ isVisible /\ (t.fired \/ newSection # currentSection)
         closure == NavClosure(newSection, t.inH, t.hp)
         oldPin == TriggerProgress(scrollY, PinStart(sectionTop), PinEnd(sectionTop, pinLength))
         newPin == TriggerProgress(y, PinStart(sectionTop), PinEnd(sectionTop, pinLength))
         pinFired == pinTrigger /\ hsTween.created /\ newPin # oldPin
     IN  /\ scrollY' = y
         /\ trackerProgress' = t.q
         /\ horizontalProgress' = t.hp
         /\ isInHorizontalSection' = t.inH
         /\ currentSection' = newSection
         /\ overallPageScrollProgress' = newOverall
         /\ sectionProgress' = IF navRerun THEN NavUpdate(closure, y) ELSE sectionProgress
         /\ hsProgress' = IF pinFired THEN HSPanelUpdate(newPin, hsPanels) ELSE hsProgress
         /\ rafId' = heroMounted
         /\ navFrames' = IF heroMounted /\ isVisible THEN Append(navFrames, closure)
                         ELSE navFrames
         /\ evaluated' = depsChanged
         /\ repeated' = FALSE
         /\ evalY' = IF depsChanged THEN y ELSE evalY
         /\ probe' = ProbeAfter(depsChanged, t.inH, y, newSection)
         /\ pushed' = PushIf("horizontalProgress", t.fired)
                        \cup PushIf("isInHorizontalSection", t.inH # isInHorizontalSection)
                        \cup PushIf("currentSection", newSection # currentSection)
                        \cup PushIf("overallPageScrollProgress",
                                    newOverall # overallPageScrollProgress)
                        \cup PushIf("sectionProgress", navRerun)
                        \cup PushIf("hsProgress", pinFired)
  /\ heroRuns' = 0
  /\ navRuns' = 0
  /\ scrollsSinceFrame' = scrollsSinceFrame + 1
  /\ UNCHANGED << layoutVars, heroMounted, navigationConfig, setupTimer, horizontalTrackerST,
                  pinTrigger, isVisible, visibleTimer, hsPanels, hsTween >>
  /\ UNCHANGED pageVars

\* A rendered frame: the requested callbacks run.  Hero's callback is
\* calculateScrollValues; each requested VerticalNavigation callback runs
\* updateSectionProgressState with the props its closure captured, and the
\* last setSectionProgress of the batch is the one rendered.  A section
\* change re-runs the VerticalNavigation effect with its initial calculation.
\* Setters of an unmounted component are ignored by React.
Frame ==
  /\ rafId \/ navFrames # << >> \/ scrollsSinceFrame > 0
  /\ LET ev == calculateScrollValues(currentSection, isInHorizontalSection,
                                     horizontalProgress, scrollY)
         newSection == IF rafId THEN ev.section ELSE currentSection
         newOverall == IF rafId THEN ev.overall ELSE overallPageScrollProgress
         navRan == heroMounted /\ navFrames # << >>
         sp1 == IF navRan THEN NavUpdate(navFrames[Len(navFrames)], scrollY)
                ELSE sectionProgress
         navRerun == heroMounted /\ isVisible /\ newSection # currentSection
         fresh == NavClosure(newSection, isInHorizontalSection, horizontalProgress)
     IN  /\ currentSection' = newSection
         /\ overallPageScrollProgress' = newOverall
         /\ sectionProgress' = IF navRerun THEN NavUpdate(fresh, scrollY) ELSE sp1
         /\ evaluated' = rafId
         /\ repeated' = (rafId /\ evalY = scrollY)
         /\ evalY' = IF rafId THEN scrollY ELSE evalY
         /\ probe' = ProbeAfter(rafId, isInHorizontalSection, scrollY, newSection)
         /\ pushed' = PushIf("currentSection", newSection # currentSection)
                        \cup PushIf("overallPageScrollProgress",
                                    newOverall # overallPageScrollProgress)
                        \cup PushIf("sectionProgress", navRan \/ navRerun)
  /\ heroRuns' = IF rafId THEN 1 ELSE 0
  /\ navRuns' = Len(navFrames)
  /\ rafId' = FALSE
  /\ navFrames' = << >>
  /\ scrollsSinceFrame' = 0
  /\ UNCHANGED << layoutVars, scrollY, heroMounted, navigationConfig, horizontalProgress,
                  isInHorizontalSection, setupTimer, horizontalTrackerST, trackerProgress,
                  pinTrigger, isVisible, visibleTimer, hsVars >>
  /\ UNCHANGED pageVars

\* the page as shipped: horizontalScrollThemes has four panels
Init ==
  /\ hsPanels = 4
  /\ hsTween = HSTweenSetup(4)
  /\ probe = "off"
  /\ InitCommon

\* the same on the long page, remembering the sections reported at
\* ProbeOffset
InitProbe ==
  /\ hsPanels = 4
  /\ hsTween = HSTweenSetup(4)
  /\ probe = "none"
  /\ InitCommon
  /\ sectionTop = LongPage.top

\* HorizontalScroll rendered with any number of panels, its pin tween not
\* yet set up
InitMapper ==
  /\ hsPanels \in PanelCounts
  /\ hsTween = [created |-> FALSE, xPercent |-> Num(0), snapTo |-> Num(0)]
  /\ probe = "off"
  /\ InitCommon

\* A timer of the tracker set-up fires (Hero lines 325-367):
\* setupHorizontalTracking after 100 ms or 500 ms, checkForMainPinTrigger
\* after 200 ms.  A new ScrollTrigger takes up the current scroll position
\* at once, firing its callbacks.
SetupTimerFires ==
  /\ setupTimer # "none"
  /\ IF setupTimer \in {"t100", "t500"} /\ ~horizontalSectionEl
     THEN /\ setupTimer' = "t500"
          /\ evaluated' = FALSE
          /\ repeated' = FALSE
          /\ pushed' = {}
          /\ UNCHANGED << horizontalTrackerST, trackerProgress, horizontalProgress,
                          isInHorizontalSection, currentSection, overallPageScrollProgress,
                          sectionProgress, evalY, probe >>
     ELSE IF ~getMainHorizontalPinTrigger
     THEN /\ setupTimer' = "t200"
          /\ evaluated' = FALSE
          /\ repeated' = FALSE
          /\ pushed' = {}
          /\ UNCHANGED << horizontalTrackerST, trackerProgress, horizontalProgress,
                          isInHorizontalSection, currentSection, overallPageScrollProgress,
                          sectionProgress, evalY, probe >>
     ELSE LET t == TrackerTick(scrollY)
              depsChanged == t.inH # isInHorizontalSection
                               \/ t.hp.activePanel # horizontalProgress.activePanel
              ev == calculateScrollValues(currentSection, t.inH, t.hp, scrollY)
              newSection == IF depsChanged THEN ev.section ELSE currentSection
              newOverall == IF depsChanged THEN ev.overall ELSE overallPageScrollProgress
              navRerun == isVisible /\ (t.fired \/ newSection # currentSection)
          IN  /\ setupTimer' = "none"
              /\ horizontalTrackerST' = TRUE
              /\ trackerProgress' = t.q
              /\ horizontalProgress' = t.hp
              /\ isInHorizontalSection' = t.inH
              /\ currentSection' = newSection
              /\ overallPageScrollProgress' = newOverall
              /\ sectionProgress' =
                   IF navRerun THEN NavUpdate(NavClosure(newSection, t.inH, t.hp), scrollY)
                   ELSE sectionProgress
              /\ evaluated' = depsChanged
              /\ repeated' = FALSE
              /\ evalY' = IF depsChanged THEN scrollY ELSE evalY
              /\ probe' = ProbeAfter(depsChanged, t.inH, scrollY, newSection)
              /\ pushed' = PushIf("horizontalProgress", t.fired)
                             \cup PushIf("isInHorizontalSection", t.inH # isInHorizontalSection)
                             \cup PushIf("currentSection", newSection # currentSection)
                             \cup PushIf("overallPageScrollProgress",
                                         newOverall # overallPageScrollProgress)
                             \cup PushIf("sectionProgress", navRerun)
  /\ heroRuns' = 0
  /\ navRuns' = 0
  /\ UNCHANGED << layoutVars, scrollY, heroMounted, navigationConfig, rafId, pinTrigger,
                  isVisible, visibleTimer, navFrames, hsVars, scrollsSinceFrame >>
  /\ UNCHANGED pageVars

\* VerticalNavigation lines 142-145 and 104-140: after 2000 ms the rail
\* becomes visible; its effect subscribes to scroll and calculates once
NavVisibleTimer ==
  /\ visibleTimer
  /\ visibleTimer' = FALSE
  /\ isVisible' = TRUE
  /\ sectionProgress' = NavUpdate(NavClosure(currentSection, isInHorizontalSection,
                                             horizontalProgress), scrollY)
  /\ pushed' = {"isVisible", "sectionProgress"}
  /\ heroRuns' = 0
  /\ navRuns' = 0
  /\ evaluated' = FALSE
  /\ repeated' = FALSE
  /\ UNCHANGED << layoutVars, heroVars, navFrames, hsVars, evalY, scrollsSinceFrame, probe >>
  /\ UNCHANGED pageVars

\* Hero and its children are unmounted; the effect clean-ups run: Hero lines
\* 315-318 (listener removed, frame cancelled) and 369-372 (first timer
\* cleared, tracker killed), VerticalNavigation lines 138 (listener removed)
\* and 144 (timer cleared), HorizontalScroll lines 409-415 (pin killed)
Unmount ==
  /\ heroMounted
  /\ heroMounted' = FALSE
  /\ rafId' = FALSE
  /\ setupTimer' = IF setupTimer = "t100" THEN "none" ELSE setupTimer
  /\ horizontalTrackerST' = FALSE
  /\ pinTrigger' = FALSE
  /\ visibleTimer' = FALSE
  /\ pushed' = {}
  /\ heroRuns' = 0
  /\ navRuns' = 0
  /\ evaluated' = FALSE
  /\ repeated' = FALSE
  /\ UNCHANGED << layoutVars, scrollY, navigationConfig, currentSection, horizontalProgress,
                  isInHorizontalSection, overallPageScrollProgress, trackerProgress,
                  isVisible, sectionProgress, navFrames, hsVars, evalY, scrollsSinceFrame, probe >>
  /\ UNCHANGED pageVars

Next ==
  \/ \E y \in ScrollTargets : ScrollEvent(y)
  \/ Frame
  \/ SetupTimerFires
  \/ NavVisibleTimer
  \/ Unmount

Spec == Init /\ [][Next]_vars

SpecProbe == InitProbe /\ [][Next]_vars

(* ------------- the panel mapping under any reported progress ----------- *)

\* the effect of HorizontalScroll that sets up the pin tween (lines 337-405)
PinSetup ==
  /\ ~hsTween.created
  /\ hsTween' = HSTweenSetup(hsPanels)
  /\ pushed' = {}
  /\ heroRuns' = 0
  /\ navRuns' = 0
  /\ evaluated' = FALSE
  /\ repeated' = FALSE
  /\ UNCHANGED << layoutVars, heroVars, navVars, hsPanels, hsProgress, evalY,
                  scrollsSinceFrame, probe >>
  /\ UNCHANGED pageVars

\* onUpdate of the pin tween of HorizontalScroll with a reported progress p
PinReport(p) ==
  /\ hsTween.created
  /\ hsProgress' = HSPanelUpdate(p, hsPanels)
  /\ pushed' = {"hsProgress"}
  /\ heroRuns' = 0
  /\ navRuns' = 0
  /\ evaluated' = FALSE
  /\ repeated' = FALSE
  /\ UNCHANGED << layoutVars, heroVars, navVars, hsPanels, hsTween, evalY, scrollsSinceFrame, probe >>
  /\ UNCHANGED pageVars

\* onUpdate of Hero's tracker with a reported progress p
TrackerReport(p) ==
  /\ horizontalProgress' = PanelUpdate(p, Len(navigationThemes))
  /\ trackerProgress' = p
  /\ pushed' = {"horizontalProgress"}
  /\ heroRuns' = 0
  /\ navRuns' = 0
  /\ evaluated' = FALSE
  /\ repeated' = FALSE
  /\ UNCHANGED << layoutVars, scrollY, heroMounted, navigationConfig, currentSection,
                  isInHorizontalSection, overallPageScrollProgress, rafId, setupTimer,
                  horizontalTrackerST, pinTrigger, navVars, hsVars, evalY, scrollsSinceFrame, probe >>
  /\ UNCHANGED pageVars

NextMapper ==
  \/ PinSetup
  \/ \E p \in RawProgressValues : PinReport(p)
  \/ \E p \in RawProgressValues : TrackerReport(p)

SpecMapper == InitMapper /\ [][NextMapper]_vars

(* ---------- one evaluation on inputs drawn from bounded sets ------------ *)

\* the layouts handed to a single evaluation: those of the page and a
\* document as high as the viewport, filled by the horizontal section with
\* a pin of zero length (maxScrollableHeight = 0)
EvaluatorLayouts == Layouts \cup { [doc |-> 20, top |-> 0, len |-> 0] }

\* the horizontalProgress values handed to a single evaluation: the first
\* panel at its start and half-way, the last panel, and an index that no
\* entry of navigationThemes answers
PanelStates ==
  { PanelUpdate(Rat(k, 8), Len(navigationThemes)) : k \in {0, 1, 8} }
    \cup { [activePanel |-> Len(navigationThemes), progress |-> Num(0)] }

\* the viewport height after a resize of the window
ResizedHeights == { 40 }

\* A scroll event has requested the frames of Hero and VerticalNavigation
\* (Hero lines 307-312, VerticalNavigation lines 134-135); the values the
\* callbacks will read are drawn from bounded sets.  window.scrollY is not
\* limited to the scrollable range (elastic overscroll reports offsets
\* beyond it).
InitEvaluator ==
  /\ \E l \in EvaluatorLayouts :
       /\ docScrollHeight = l.doc
       /\ sectionTop = l.top
       /\ pinLength = l.len
  /\ windowHeight \in WindowHeights
  /\ scrollY \in 0..MaxScrollY
  /\ heroMounted = TRUE
  /\ navigationConfig = NavigationConfigFor(windowHeight)
  /\ currentSection \in SectionIds
  /\ horizontalProgress \in PanelStates
  /\ isInHorizontalSection \in BOOLEAN
  /\ overallPageScrollProgress = Num(0)
  /\ rafId = TRUE
  /\ setupTimer = "none"
  /\ horizontalTrackerST = TRUE
  /\ trackerProgress = Num(0)
  /\ pinTrigger \in BOOLEAN
  /\ isVisible = TRUE
  /\ visibleTimer = FALSE
  /\ sectionProgress = [current |-> 0, percentage |-> Num(0)]
  /\ navFrames = << NavClosure(currentSection, isInHorizontalSection, horizontalProgress) >>
  /\ hsPanels = 4
  /\ hsTween = HSTweenSetup(4)
  /\ hsProgress = [activePanel |-> 0, progress |-> Num(0)]
  /\ heroRuns = 0
  /\ navRuns = 0
  /\ evaluated = FALSE
  /\ repeated = FALSE
  /\ pushed = {}
  /\ evalY = 0
  /\ scrollsSinceFrame = 1
  /\ probe = "off"
  /\ InitPage

\* The window is resized to another height (scrollManager lines 118-125
\* refresh the ScrollTriggers).  Hero's navigationConfig is useMemo(..., [])
\* (lines 72-83) and keeps the value of the first render.
Resize ==
  /\ windowHeight \notin ResizedHeights
  /\ \E h \in ResizedHeights :
       /\ h <= docScrollHeight
       /\ windowHeight' = h
  /\ pushed' = {}
  /\ heroRuns' = 0
  /\ navRuns' = 0
  /\ evaluated' = FALSE
  /\ repeated' = FALSE
  /\ UNCHANGED << docScrollHeight, sectionTop, pinLength, heroVars, navVars, hsVars, evalY,
                  scrollsSinceFrame, probe >>
  /\ UNCHANGED pageVars

NextEvaluator ==
  \/ Frame
  \/ Resize

SpecEvaluator == InitEvaluator /\ [][NextEvaluator]_vars

(* ------------------- App: Loader, Intro and the phase ------------------ *)

\* App.tsx line 70: lifespan={3000}; Intro hands its lifespan to
\* gsap.delayedCall, which counts seconds (Intro line 510)
LifespanFromApp == 3000

\* the phase Loader's transition timeline sets on completion (line 160)
PhaseAfterLoaderSkippingIntro == "hero"

PhaseAfterLoader == "intro"

\* App.tsx lines 59-74: the components App renders for a phase
MountedComponents(p) ==
  (IF p = "loader" THEN {"Loader"} ELSE {})
    \cup (IF p = "intro" THEN {"Intro"} ELSE {})
    \cup (IF p = "hero" THEN {"Hero"} ELSE {})

\* the transition effect of Loader (lines 147-156) for a value of `done`:
\* does it schedule the delayedCall
LoaderSchedulesTransition(done) == done /\ ~prefersReduced

\* Hero is not rendered before the phase is 'hero'
InitHeroAbsent ==
  /\ docScrollHeight = LongPage.doc
  /\ sectionTop = LongPage.top
  /\ pinLength = LongPage.len
  /\ windowHeight \in WindowHeights
  /\ scrollY = 0
  /\ heroMounted = FALSE
  /\ navigationConfig = NavigationConfigFor(windowHeight)
  /\ currentSection = "home"
  /\ horizontalProgress = [activePanel |-> 0, progress |-> Num(0)]
  /\ isInHorizontalSection = FALSE
  /\ overallPageScrollProgress = Num(0)
  /\ rafId = FALSE
  /\ setupTimer = "none"
  /\ horizontalTrackerST = FALSE
  /\ trackerProgress = Num(0)
  /\ pinTrigger = FALSE
  /\ isVisible = FALSE
  /\ visibleTimer = FALSE
  /\ sectionProgress = [current |-> 0, percentage |-> Num(0)]
  /\ navFrames = << >>
  /\ hsPanels = 4
  /\ hsTween = [created |-> FALSE, xPercent |-> Num(0), snapTo |-> Num(0)]
  /\ hsProgress = [activePanel |-> 0, progress |-> Num(0)]
  /\ heroRuns = 0
  /\ navRuns = 0
  /\ evaluated = FALSE
  /\ repeated = FALSE
  /\ pushed = {}
  /\ evalY = 0
  /\ scrollsSinceFrame = 0
  /\ probe = "off"
  /\ smLenis = FALSE
  /\ smIsDestroyed = FALSE
  /\ tickerCallbacks = 0
  /\ resizeListeners = 0
  /\ navbarTrigger = FALSE
  /\ introComplete = FALSE
  /\ lenisRafCalls = 0
  /\ pendingRefreshes = 0

\* App has just been mounted: the store holds 'loader' (part_000 line 11),
\* Loader's effects have run.  With no assets the preload effect calls
\* setDone(true) at once (line 103) and the transition effect runs on it.
InitPhase ==
  /\ InitHeroAbsent
  /\ InitRest
  /\ phase = "loader"
  /\ prefersReduced \in BOOLEAN
  /\ loaderAssets \in 0..MaxAssets
  /\ loaderLoaded = 0
  /\ loaderFrame = FALSE
  /\ loaderDone = (loaderAssets = 0)
  /\ loaderDelayedCall = LoaderSchedulesTransition(loaderAssets = 0)
  /\ loaderTransitionTl = FALSE
  /\ introLoaded = 0
  /\ imagesPreloaded = FALSE
  /\ introStage = "idle"
  /\ introElapsed = 0

\* Loader lines 125-133: an image fires load or error
LoaderAssetSettles ==
  /\ phase = "loader"
  /\ loaderLoaded < loaderAssets
  /\ loaderLoaded' = loaderLoaded + 1
  /\ loaderFrame' = (loaderFrame \/ loaderLoaded + 1 = loaderAssets)
  /\ UNCHANGED << phase, prefersReduced, loaderAssets, loaderDone, loaderDelayedCall,
                  loaderTransitionTl, introLoaded, imagesPreloaded, introStage, introElapsed >>
  /\ UNCHANGED << layoutVars, heroVars, navVars, hsVars, obsVars, managerVars, restVars >>

\* Loader line 131: the requested frame runs setDone(true); the transition
\* effect (lines 147-156, dependencies [done, assets.length]) runs again
LoaderFrameRuns ==
  /\ loaderFrame
  /\ loaderFrame' = FALSE
  /\ loaderDone' = (loaderDone \/ phase = "loader")
  /\ loaderDelayedCall' =
       (loaderDelayedCall \/ (phase = "loader" /\ ~loaderDone /\ LoaderSchedulesTransition(TRUE)))
  /\ UNCHANGED << phase, prefersReduced, loaderAssets, loaderLoaded, loaderTransitionTl,
                  introLoaded, imagesPreloaded, introStage, introElapsed >>
  /\ UNCHANGED << layoutVars, heroVars, navVars, hsVars, obsVars, managerVars, restVars >>

\* Loader lines 156-162: the delayedCall fires and builds transitionTl
LoaderDelayedCallFires ==
  /\ loaderDelayedCall
  /\ loaderDelayedCall' = FALSE
  /\ loaderTransitionTl' = TRUE
  /\ UNCHANGED << phase, prefersReduced, loaderAssets, loaderLoaded, loaderFrame, loaderDone,
                  introLoaded, imagesPreloaded, introStage, introElapsed >>
  /\ UNCHANGED << layoutVars, heroVars, navVars, hsVars, obsVars, managerVars, restVars >>

\* Intro lines 137-143 and 510: with the images preloaded the animation
\* starts and the exit is scheduled `lifespan` seconds ahead
IntroStageAfterPreload(preloaded) == IF preloaded THEN "running" ELSE "idle"

\* Loader lines 159-161: transitionTl completes, setPhase('intro'); App
\* replaces Loader by Intro, whose preload effect starts (Intro lines 87-127)
LoaderTransitionCompletes ==
  /\ loaderTransitionTl
  /\ loaderTransitionTl' = FALSE
  /\ phase' = PhaseAfterLoader
  /\ introLoaded' = 0
  /\ imagesPreloaded' = (loaderAssets = 0)
  /\ introStage' = IntroStageAfterPreload(loaderAssets = 0)
  /\ introElapsed' = 0
  /\ UNCHANGED << prefersReduced, loaderAssets, loaderLoaded, loaderFrame, loaderDone,
                  loaderDelayedCall >>
  /\ UNCHANGED << layoutVars, heroVars, navVars, hsVars, obsVars, managerVars, restVars >>

\* Intro lines 105-122: an image of the themes fires load or error; the
\* last one sets imagesPreloaded and the animation effect starts
IntroImageSettles ==
  /\ phase = "intro"
  /\ introLoaded < loaderAssets
  /\ introLoaded' = introLoaded + 1
  /\ imagesPreloaded' = (introLoaded + 1 = loaderAssets)
  /\ introStage' = IntroStageAfterPreload(introLoaded + 1 = loaderAssets)
  /\ introElapsed' = 0
  /\ UNCHANGED << phase, prefersReduced, loaderAssets, loaderLoaded, loaderFrame, loaderDone,
                  loaderDelayedCall, loaderTransitionTl >>
  /\ UNCHANGED << layoutVars, heroVars, navVars, hsVars, obsVars, managerVars, restVars >>

\* gsap time passes while the Intro animation runs: second by second for
\* the first MaxSeconds, or straight to the moment of the delayedCall
IntroTimePasses ==
  /\ introStage = "running"
  /\ introElapsed < LifespanFromApp
  /\ \E t \in { s \in {introElapsed + 1} : s <= MaxSeconds } \cup { LifespanFromApp } :
       introElapsed' = t
  /\ UNCHANGED << phase, prefersReduced, loaderAssets, loaderLoaded, loaderFrame, loaderDone,
                  loaderDelayedCall, loaderTransitionTl, introLoaded, imagesPreloaded,
                  introStage >>
  /\ UNCHANGED << layoutVars, heroVars, navVars, hsVars, obsVars, managerVars, restVars >>

\* Intro lines 510-519: the delayedCall of `lifespan` seconds fires and
\* starts exitTl
IntroExitBegins ==
  /\ introStage = "running"
  /\ introElapsed >= LifespanFromApp
  /\ introStage' = "exit"
  /\ UNCHANGED << phase, prefersReduced, loaderAssets, loaderLoaded, loaderFrame, loaderDone,
                  loaderDelayedCall, loaderTransitionTl, introLoaded, imagesPreloaded,
                  introElapsed >>
  /\ UNCHANGED << layoutVars, heroVars, navVars, hsVars, obsVars, managerVars, restVars >>

\* Intro line 518: exitTl completes, setPhase('hero'); App replaces Intro
\* by Hero
IntroExitCompletes ==
  /\ introStage = "exit"
  /\ introStage' = "idle"
  /\ phase' = "hero"
  /\ UNCHANGED << prefersReduced, loaderAssets, loaderLoaded, loaderFrame, loaderDone,
                  loaderDelayedCall, loaderTransitionTl, introLoaded, imagesPreloaded,
                  introElapsed >>
  /\ UNCHANGED << layoutVars, heroVars, navVars, hsVars, obsVars, managerVars, restVars >>

NextPhase ==
  \/ LoaderAssetSettles
  \/ LoaderFrameRuns
  \/ LoaderDelayedCallFires
  \/ LoaderTransitionCompletes
  \/ IntroImageSettles
  \/ IntroTimePasses
  \/ IntroExitBegins
  \/ IntroExitCompletes

SpecPhase == InitPhase /\ [][NextPhase]_vars

\* every image request settles, frames are rendered, gsap's ticker runs its
\* delayed calls and timelines
SpecPhaseFair == SpecPhase /\ WF_vars(NextPhase)

(* ------------- scrollManager, Navbar and the scroll triggers ------------ *)

\* ScrollManager.init (scrollManager.ts lines 35-66): nothing while a Lenis
\* exists; otherwise a Lenis is created, setupRAF adds an arrow function to
\* gsap.ticker (line 72), setupScrollTriggerIntegration adds an arrow
\* function as 'resize' listener (line 118), isDestroyed becomes false
ManagerAfterInit(m) ==
  IF m.lenis THEN m
  ELSE [lenis |-> TRUE, isDestroyed |-> FALSE, ticker |-> m.ticker + 1, resize |-> m.resize + 1]

\* ScrollManager.destroy (lines 326-348): nothing when already destroyed;
\* otherwise the Lenis is destroyed.  gsap.ticker.remove is never called and
\* removeEventListener is given this.refreshScrollTriggers, which was never
\* added, so both registrations stay.
ManagerAfterDestroy(m) ==
  IF m.isDestroyed THEN m
  ELSE [lenis |-> FALSE, isDestroyed |-> TRUE, ticker |-> m.ticker, resize |-> m.resize]

\* destroy line 342 kills every ScrollTrigger of the page unless it returns
\* at line 327
DestroyKillsAll(m) == ~m.isDestroyed

scrollManager ==
  [lenis |-> smLenis, isDestroyed |-> smIsDestroyed, ticker |-> tickerCallbacks,
   resize |-> resizeListeners]

\* the landing page on the long layout, just mounted with introComplete
InitTeardown ==
  /\ Init
  /\ docScrollHeight = LongPage.doc

\* The introComplete prop of Hero changes.  From true to false the cleanups
\* run: Navbar's kills every ScrollTrigger of the page (Navbar.tsx line 52),
\* Hero's cancel the frame, clear the first set-up timer and kill the tracker
\* (part_003 lines 313-318, 369-372); the effects then return at their first
\* line.  From false to true there is nothing to clean up: Navbar creates its
\* trigger (line 35) and Hero starts the tracker set-up (line 368); a chain
\* still polling from an earlier run looks for the same trigger and is not
\* followed separately.  The page is at the top.
IntroCompleteChanges ==
  /\ heroMounted
  /\ introComplete' = ~introComplete
  /\ IF introComplete
     THEN /\ navbarTrigger' = FALSE
          /\ pinTrigger' = FALSE
          /\ horizontalTrackerST' = FALSE
          /\ rafId' = FALSE
          /\ setupTimer' = IF setupTimer = "t100" THEN "none" ELSE setupTimer
     ELSE /\ navbarTrigger' = TRUE
          /\ setupTimer' = "t100"
          /\ UNCHANGED << pinTrigger, horizontalTrackerST, rafId >>
  /\ UNCHANGED << smLenis, smIsDestroyed, tickerCallbacks, resizeListeners, lenisRafCalls,
                  pendingRefreshes >>
  /\ UNCHANGED << layoutVars, scrollY, heroMounted, navigationConfig, currentSection,
                  horizontalProgress, isInHorizontalSection, overallPageScrollProgress,
                  trackerProgress, navVars, hsVars, obsVars, phaseVars, restVars >>

\* Hero is unmounted with everything it renders (StrictMode, main.tsx line
\* 28, does so once right after the first mount): the cleanups of Hero and
\* VerticalNavigation as in Unmount, Navbar's cleanup when its effect had
\* created the trigger, HorizontalScroll's scrollManager.destroy()
\* (HorizontalScroll.tsx line 333) and its own pin cleanup (lines 409-415)
HeroTreeUnmounts ==
  /\ heroMounted
  /\ heroMounted' = FALSE
  /\ rafId' = FALSE
  /\ setupTimer' = IF setupTimer = "t100" /\ introComplete THEN "none" ELSE setupTimer
  /\ horizontalTrackerST' =
       (horizontalTrackerST /\ ~introComplete /\ ~DestroyKillsAll(scrollManager))
  /\ pinTrigger' = FALSE
  /\ navbarTrigger' = FALSE
  /\ visibleTimer' = FALSE
  /\ \E m \in { ManagerAfterDestroy(scrollManager) } :
       /\ smLenis' = m.lenis
       /\ smIsDestroyed' = m.isDestroyed
       /\ tickerCallbacks' = m.ticker
       /\ resizeListeners' = m.resize
  /\ pushed' = {}
  /\ heroRuns' = 0
  /\ navRuns' = 0
  /\ evaluated' = FALSE
  /\ repeated' = FALSE
  /\ UNCHANGED << layoutVars, scrollY, navigationConfig, currentSection, horizontalProgress,
                  isInHorizontalSection, overallPageScrollProgress, trackerProgress,
                  isVisible, sectionProgress, navFrames, hsVars, evalY, scrollsSinceFrame, probe,
                  introComplete, lenisRafCalls, pendingRefreshes, phaseVars, restVars >>

\* Hero is mounted again: fresh React state, HorizontalScroll's mount effect
\* calls scrollManager.init (line 302) and its pin effect creates the pin
\* trigger (lines 369-401), Navbar's effect and Hero's tracker set-up run
\* when introComplete, VerticalNavigation starts its 2000 ms timer
HeroTreeMounts ==
  /\ ~heroMounted
  /\ tickerCallbacks < MaxRegistrations
  /\ heroMounted' = TRUE
  /\ \E m \in { ManagerAfterInit(scrollManager) } :
       /\ smLenis' = m.lenis
       /\ smIsDestroyed' = m.isDestroyed
       /\ tickerCallbacks' = m.ticker
       /\ resizeListeners' = m.resize
  /\ pinTrigger' = TRUE
  /\ navbarTrigger' = introComplete
  /\ setupTimer' = IF introComplete THEN "t100" ELSE setupTimer
  /\ visibleTimer' = TRUE
  /\ isVisible' = FALSE
  /\ currentSection' = "home"
  /\ horizontalProgress' = [activePanel |-> 0, progress |-> Num(0)]
  /\ isInHorizontalSection' = FALSE
  /\ overallPageScrollProgress' = Num(0)
  /\ sectionProgress' = [current |-> 0, percentage |-> Num(0)]
  /\ hsProgress' = [activePanel |-> 0, progress |-> Num(0)]
  /\ rafId' = FALSE
  /\ pushed' = {}
  /\ heroRuns' = 0
  /\ navRuns' = 0
  /\ evaluated' = FALSE
  /\ repeated' = FALSE
  /\ UNCHANGED << layoutVars, scrollY, navigationConfig, horizontalTrackerST, trackerProgress,
                  navFrames, hsPanels, hsTween, evalY, scrollsSinceFrame, probe,
                  introComplete, lenisRafCalls, pendingRefreshes, phaseVars, restVars >>

\* gsap.ticker runs every callback the manager has added; each calls
\* lenis.raf when the manager has a Lenis and is not destroyed (lines 72-76)
TickerTicks ==
  /\ tickerCallbacks > 0
  /\ lenisRafCalls' = IF smLenis /\ ~smIsDestroyed THEN tickerCallbacks ELSE 0
  /\ UNCHANGED << smLenis, smIsDestroyed, tickerCallbacks, resizeListeners, navbarTrigger,
                  introComplete, pendingRefreshes >>
  /\ UNCHANGED << layoutVars, heroVars, navVars, hsVars, obsVars, phaseVars, restVars >>

\* The window fires 'resize' with unchanged measures: every listener the
\* manager has added starts a 100 ms timer unless the manager is destroyed
\* (lines 118-124)
WindowResizeEvent ==
  /\ resizeListeners > 0
  /\ pendingRefreshes = 0
  /\ pendingRefreshes' = IF smIsDestroyed THEN 0 ELSE resizeListeners
  /\ UNCHANGED << smLenis, smIsDestroyed, tickerCallbacks, resizeListeners, navbarTrigger,
                  introComplete, lenisRafCalls >>
  /\ UNCHANGED << layoutVars, heroVars, navVars, hsVars, obsVars, phaseVars, restVars >>

\* one of those timers calls ScrollTrigger.refresh (line 121)
RefreshTimerFires ==
  /\ pendingRefreshes > 0
  /\ pendingRefreshes' = pendingRefreshes - 1
  /\ UNCHANGED << smLenis, smIsDestroyed, tickerCallbacks, resizeListeners, navbarTrigger,
                  introComplete, lenisRafCalls >>
  /\ UNCHANGED << layoutVars, heroVars, navVars, hsVars, obsVars, phaseVars, restVars >>

NextTeardown ==
  \/ IntroCompleteChanges
  \/ HeroTreeUnmounts
  \/ HeroTreeMounts
  \/ SetupTimerFires
  \/ TickerTicks
  \/ WindowResizeEvent
  \/ RefreshTimerFires

SpecTeardown == InitTeardown /\ [][NextTeardown]_vars

(* ------------------- MarqueeSection and its Marquees ------------------- *)

\* Marquee.pauseAnimation (Intro.tsx lines 444-452)
pauseAnimation(q) == [q EXCEPT !.programmatic = TRUE, !.paused = TRUE]

\* Marquee.playAnimation (lines 453-467) with autoplay: only a paused,
\* programmatically paused animation is touched, and only when the user
\* interaction does not pause it; otherwise programmaticPauseRef stays true
playAnimation(q) ==
  IF q.paused /\ q.programmatic /\ ~q.userPaused
  THEN [q EXCEPT !.programmatic = FALSE, !.paused = FALSE]
  ELSE q

\* handleMouseEnter (lines 500-508) with pauseOnHover
handleMouseEnter(q) ==
  [q EXCEPT !.userPaused = TRUE,
            !.paused = IF ~q.programmatic /\ ~q.paused THEN TRUE ELSE q.paused]

\* handleMouseLeave (lines 510-518) with pauseOnHover and autoplay
handleMouseLeave(q) ==
  [q EXCEPT !.userPaused = FALSE,
            !.paused = IF ~q.programmatic /\ q.paused THEN FALSE ELSE q.paused]

\* MarqueeSection renders again: the items arrays are new (part_004 lines
\* 2049-2057), so each Marquee's useGSAP kills its animation and creates one
\* with paused: initialPausedState (Intro.tsx lines 520-587)
Rebuilt(q) == [q EXCEPT !.paused = initialPausedState(q.programmatic, q.userPaused)]

\* the fullscreen container (fixed inset-0, part_004 lines 2111-2114) is
\* rendered and takes the pointer: not while it has pointerEvents "none"
\* during the close animation (line 1969)
OverlayTakesPointer == activeFlipId # "none" /\ fsPointerEvents = "auto"

\* the landing page with MarqueeSection mounted
InitMarquee ==
  /\ Init
  /\ docScrollHeight = LongPage.doc

\* the pointer moves onto the wrapper of Marquee m: mouseenter
MouseEnter(m) ==
  /\ pointerOver = "none"
  /\ ~OverlayTakesPointer
  /\ pointerOver' = m
  /\ marquee' = [marquee EXCEPT ![m] = handleMouseEnter(marquee[m])]
  /\ UNCHANGED << activeFlipId, isAnimating, openTl, closeTl, fsPointerEvents, isDesktop,
                  lastClick, playedHovering >>
  /\ UNCHANGED << layoutVars, heroVars, navVars, hsVars, obsVars, phaseVars, managerVars, clickVars,
                  overlayVars >>

\* the pointer leaves the wrapper of Marquee m (also onto the fullscreen
\* container): mouseleave
MouseLeave(m) ==
  /\ pointerOver = m
  /\ pointerOver' = "none"
  /\ marquee' = [marquee EXCEPT ![m] = handleMouseLeave(marquee[m])]
  /\ UNCHANGED << activeFlipId, isAnimating, openTl, closeTl, fsPointerEvents, isDesktop,
                  lastClick, playedHovering >>
  /\ UNCHANGED << layoutVars, heroVars, navVars, hsVars, obsVars, phaseVars, managerVars, clickVars,
                  overlayVars >>

\* handleImageClick (part_004 lines 1845-1864) for an image of Marquee m,
\* which the pointer is over; the accepted click pauses all Marquees, and the
\* render it causes starts the open timeline (lines 1867-1937)
ImageClick(m) ==
  /\ pointerOver = m
  /\ ~OverlayTakesPointer
  /\ IF isAnimating \/ activeFlipId # "none"
     THEN /\ lastClick' = "ignored"
          /\ UNCHANGED << marquee, activeFlipId, isAnimating, openTl, fsPointerEvents,
                          playedHovering >>
     ELSE /\ lastClick' = "accepted"
          /\ fsPointerEvents' = "auto"
          /\ marquee' = [k \in Marquees |-> Rebuilt(pauseAnimation(marquee[k]))]
          /\ isAnimating' = TRUE
          /\ activeFlipId' = m
          /\ openTl' = TRUE
          /\ playedHovering' = {}
  /\ UNCHANGED << pointerOver, closeTl, isDesktop >>
  /\ UNCHANGED << layoutVars, heroVars, navVars, hsVars, obsVars, phaseVars, managerVars, clickVars,
                  overlayVars >>

\* the open timeline completes (lines 1891-1893)
OpenCompletes ==
  /\ openTl
  /\ openTl' = FALSE
  /\ isAnimating' = FALSE
  /\ UNCHANGED << marquee, pointerOver, activeFlipId, closeTl, fsPointerEvents, isDesktop,
                  lastClick, playedHovering >>
  /\ UNCHANGED << layoutVars, heroVars, navVars, hsVars, obsVars, phaseVars, managerVars, clickVars,
                  overlayVars >>

\* handleCloseFullscreen (lines 1942-1988): a click on the container or the
\* close button, the pointer being on the container; ignored while animating
CloseClick ==
  /\ OverlayTakesPointer
  /\ pointerOver = "none"
  /\ ~isAnimating
  /\ isAnimating' = TRUE
  /\ closeTl' = TRUE
  /\ fsPointerEvents' = "none"
  /\ UNCHANGED << marquee, pointerOver, activeFlipId, openTl, isDesktop, lastClick,
                  playedHovering >>
  /\ UNCHANGED << layoutVars, heroVars, navVars, hsVars, obsVars, phaseVars, managerVars, clickVars,
                  overlayVars >>

\* the close timeline completes (lines 1973-1988): playAllMarquees, the
\* state is reset and MarqueeSection renders again.  useGSAP reverts an open
\* timeline when activeFlipId changes.
CloseCompletes ==
  /\ closeTl
  /\ closeTl' = FALSE
  /\ openTl' = FALSE
  /\ marquee' = [k \in Marquees |-> Rebuilt(playAnimation(marquee[k]))]
  /\ playedHovering' =
       { k \in Marquees : marquee[k].paused /\ marquee[k].programmatic /\ pointerOver = k }
  /\ activeFlipId' = "none"
  /\ isAnimating' = FALSE
  /\ fsPointerEvents' = "auto"
  /\ UNCHANGED << pointerOver, isDesktop, lastClick >>
  /\ UNCHANGED << layoutVars, heroVars, navVars, hsVars, obsVars, phaseVars, managerVars, clickVars,
                  overlayVars >>

\* The media query changes.  The Marquees are rendered under other keys
\* (lines 2078-2102), so they are mounted afresh; the layout-change effect
\* (lines 2030-2047) closes an open fullscreen view at once.  It kills the
\* tweens of the fullscreen elements but not the close timeline, which still
\* completes; the open timeline is reverted by useGSAP.  The pointer meets
\* the new wrappers with its next move.
LayoutChanges ==
  /\ isDesktop' = ~isDesktop
  /\ marquee' = [k \in Marquees |-> FreshMarquee]
  /\ pointerOver' = "none"
  /\ playedHovering' = {}
  /\ activeFlipId' = "none"
  /\ isAnimating' = (isAnimating /\ activeFlipId = "none")
  /\ openTl' = FALSE
  /\ fsPointerEvents' = "auto"
  /\ UNCHANGED << closeTl, lastClick >>
  /\ UNCHANGED << layoutVars, heroVars, navVars, hsVars, obsVars, phaseVars, managerVars, clickVars,
                  overlayVars >>

NextMarquee ==
  \/ \E m \in Marquees : MouseEnter(m)
  \/ \E m \in Marquees : MouseLeave(m)
  \/ \E m \in Marquees : ImageClick(m)
  \/ OpenCompletes
  \/ CloseClick
  \/ CloseCompletes
  \/ LayoutChanges

SpecMarquee == InitMarquee /\ [][NextMarquee]_vars

(* ---------------- a click on the vertical navigation ------------------- *)

\* a page whose pinned range is 40 units long, so that the offsets of
\* handleVerticalNavClick are whole units
ClickPage == [doc |-> 100, top |-> 20, len |-> 40]

\* handleVerticalNavClick lines 195-204: the progress and the offset aimed
\* at for the panel with index targetPanelIndex (from 0)
targetProgressInPin(targetPanelIndex, totalPanels) ==
  Clamp01(RAdd(IF totalPanels > 0 THEN Rat(targetPanelIndex, totalPanels) ELSE Num(0),
               RDiv(Rat(1, 10), Num(totalPanels))))

\* handleVerticalNavClick (part_003 lines 167-227): the offset handed to
\* scrollManager.scrollTo for a section id of navigationConfig
NavClickTarget(sectionId) ==
  IF IsThemeId(sectionId) /\ horizontalSectionEl
       /\ IndexOfTheme(navigationThemes, ThemeIdOf(sectionId)) # 0
  THEN IF getMainHorizontalPinTrigger
       THEN RAdd(Num(PinStart(sectionTop)),
                 RMul(Num(PinEnd(sectionTop, pinLength) - PinStart(sectionTop)),
                      targetProgressInPin(IndexOfTheme(navigationThemes, ThemeIdOf(sectionId)) - 1,
                                          Len(navigationThemes))))
       ELSE Num(ElementPageTop(scrollY, FALSE, sectionTop, pinLength))
  ELSE Num(navigationConfig[IndexOfSection(navigationConfig, sectionId)].scrollPosition)

\* Hero just mounted on ClickPage
InitClick ==
  /\ docScrollHeight = ClickPage.doc
  /\ sectionTop = ClickPage.top
  /\ pinLength = ClickPage.len
  /\ windowHeight \in WindowHeights
  /\ scrollY = 0
  /\ heroMounted = TRUE
  /\ navigationConfig = NavigationConfigFor(windowHeight)
  /\ currentSection = "home"
  /\ horizontalProgress = [activePanel |-> 0, progress |-> Num(0)]
  /\ isInHorizontalSection = FALSE
  /\ overallPageScrollProgress = Num(0)
  /\ rafId = FALSE
  /\ setupTimer = "t100"
  /\ horizontalTrackerST = FALSE
  /\ trackerProgress = Num(0)
  /\ pinTrigger = TRUE
  /\ isVisible = FALSE
  /\ visibleTimer = TRUE
  /\ sectionProgress = [current |-> 0, percentage |-> Num(0)]
  /\ navFrames = << >>
  /\ hsPanels = 4
  /\ hsTween = HSTweenSetup(4)
  /\ hsProgress = [activePanel |-> 0, progress |-> Num(0)]
  /\ heroRuns = 0
  /\ navRuns = 0
  /\ evaluated = FALSE
  /\ repeated = FALSE
  /\ pushed = {}
  /\ evalY = 0
  /\ scrollsSinceFrame = 0
  /\ probe = "off"
  /\ InitPage

\* an entry of the visible navigation is clicked: handleVerticalNavClick
\* hands its offset to scrollManager.scrollTo (nothing without a Lenis,
\* scrollManager.ts line 152)
NavClick(sectionId) ==
  /\ heroMounted
  /\ isVisible
  /\ smLenis
  /\ IndexOfSection(navigationConfig, sectionId) # 0
  /\ clickedSection' = sectionId
  /\ targetScrollY' = NavClickTarget(sectionId)
  /\ UNCHANGED << layoutVars, heroVars, navVars, hsVars, obsVars, phaseVars, managerVars,
                  marqueeVars, overlayVars >>

\* Lenis has animated the page to the requested offset: the scroll event at
\* that offset
LenisArrives ==
  /\ clickedSection # "none"
  /\ targetScrollY.d = 1
  /\ targetScrollY.n # scrollY
  /\ ScrollEvent(targetScrollY.n)

NextClick ==
  \/ \E sectionId \in SectionIds : NavClick(sectionId)
  \/ LenisArrives
  \/ Frame
  \/ SetupTimerFires
  \/ NavVisibleTimer

SpecClick == InitClick /\ [][NextClick]_vars

(* ------------------- overlays and the scroll lock ---------------------- *)

\* the viewport cannot be scrolled by the user: the body is taken out of
\* the flow, or the overflow that applies to the viewport is hidden
ScrollLocked ==
  bodyBox.position = "fixed" \/ htmlOverflow = "hidden" \/ bodyOverflow = "hidden"

AnyOverlayOpen == galleryOpen \/ viewerOpen \/ sheetOpen

\* the styles as they are when an overlay is opened with none open
StylesBeforeOpen ==
  IF AnyOverlayOpen THEN stylesBefore
  ELSE [overflow |-> bodyOverflow, height |-> bodyHeight, box |-> bodyBox]

\* FullscreenViewer's effect body (part_006 lines 93-97)
ViewerOverflow(isOpen) == IF isOpen THEN "hidden" ELSE ""

\* the landing page with HorizontalScroll mounted
InitOverlay ==
  /\ Init
  /\ docScrollHeight = LongPage.doc

\* HorizontalScrollSection's layout effect runs (part_004 lines 191-201,
\* after a breakpoint change for instance): unless the body's overflow is
\* already 'hidden' it is hidden and a 200 ms timer is started
SectionLayoutEffect ==
  /\ lockTimers < MaxLockTimers
  /\ bodyOverflow # "hidden"
  /\ bodyOverflow' = "hidden"
  /\ lockTimers' = lockTimers + 1
  /\ UNCHANGED << bodyHeight, htmlOverflow, bodyBox, galleryOpen, galleryStored,
                  galleryViewerOpen, viewerOpen, sheetOpen, sheetStored, stylesBefore >>
  /\ UNCHANGED << layoutVars, heroVars, navVars, hsVars, obsVars, phaseVars, managerVars,
                  marqueeVars, clickVars >>

\* the timer fires (lines 195-199): a hidden overflow is set back to
\* originalOverflow, which was not 'hidden' and so the empty string
LockTimerFires ==
  /\ lockTimers > 0
  /\ lockTimers' = lockTimers - 1
  /\ bodyOverflow' = IF bodyOverflow = "hidden" THEN "" ELSE bodyOverflow
  /\ UNCHANGED << bodyHeight, htmlOverflow, bodyBox, galleryOpen, galleryStored,
                  galleryViewerOpen, viewerOpen, sheetOpen, sheetStored, stylesBefore >>
  /\ UNCHANGED << layoutVars, heroVars, navVars, hsVars, obsVars, phaseVars, managerVars,
                  marqueeVars, clickVars >>

\* GalleryView is mounted (HorizontalScroll.tsx lines 460-468).  Its
\* FullscreenViewer is mounted closed and its effect runs first (part_006
\* lines 93-97); then the lock effect stores the body's position, top, left
\* and width and fixes the body (part_004 lines 2286-2309)
GalleryOpens ==
  /\ ~galleryOpen
  /\ galleryOpen' = TRUE
  /\ galleryViewerOpen' = FALSE
  /\ bodyOverflow' = ViewerOverflow(FALSE)
  /\ galleryStored' = bodyBox
  /\ bodyBox' = [position |-> "fixed", top |-> "-scrollY", left |-> "-scrollX",
                 width |-> "100%"]
  /\ stylesBefore' = StylesBeforeOpen
  /\ UNCHANGED << bodyHeight, htmlOverflow, lockTimers, viewerOpen, sheetOpen, sheetStored >>
  /\ UNCHANGED << layoutVars, heroVars, navVars, hsVars, obsVars, phaseVars, managerVars,
                  marqueeVars, clickVars >>

\* GalleryView is unmounted: its cleanup restores the stored values (lines
\* 2310-2324), the cleanup of its FullscreenViewer empties the overflow
\* (part_006 lines 99-101)
GalleryCloses ==
  /\ galleryOpen
  /\ galleryOpen' = FALSE
  /\ galleryViewerOpen' = FALSE
  /\ bodyBox' = galleryStored
  /\ bodyOverflow' = ""
  /\ UNCHANGED << bodyHeight, htmlOverflow, lockTimers, galleryStored, viewerOpen, sheetOpen,
                  sheetStored, stylesBefore >>
  /\ UNCHANGED << layoutVars, heroVars, navVars, hsVars, obsVars, phaseVars, managerVars,
                  marqueeVars, clickVars >>

\* the FullscreenViewer of the gallery gets another isOpen: the cleanup of
\* its effect runs, then the effect (part_006 lines 92-102)
GalleryViewerToggles ==
  /\ galleryOpen
  /\ galleryViewerOpen' = ~galleryViewerOpen
  /\ bodyOverflow' = ViewerOverflow(~galleryViewerOpen)
  /\ UNCHANGED << bodyHeight, htmlOverflow, bodyBox, lockTimers, galleryOpen, galleryStored,
                  viewerOpen, sheetOpen, sheetStored, stylesBefore >>
  /\ UNCHANGED << layoutVars, heroVars, navVars, hsVars, obsVars, phaseVars, managerVars,
                  marqueeVars, clickVars >>

\* HorizontalScrollSection mounts its FullscreenViewer open (part_004 lines
\* 536-543) or unmounts it: the effect, or its cleanup
ViewerToggles ==
  /\ viewerOpen' = ~viewerOpen
  /\ bodyOverflow' = ViewerOverflow(~viewerOpen)
  /\ stylesBefore' = IF viewerOpen THEN stylesBefore ELSE StylesBeforeOpen
  /\ UNCHANGED << bodyHeight, htmlOverflow, bodyBox, lockTimers, galleryOpen, galleryStored,
                  galleryViewerOpen, sheetOpen, sheetStored >>
  /\ UNCHANGED << layoutVars, heroVars, navVars, hsVars, obsVars, phaseVars, managerVars,
                  marqueeVars, clickVars >>

\* SlideUpSheet gets isOpen = true (part_007 lines 81-97)
SheetOpens ==
  /\ ~sheetOpen
  /\ sheetOpen' = TRUE
  /\ sheetStored' = [overflow |-> bodyOverflow, height |-> bodyHeight,
                     htmlOverflow |-> htmlOverflow]
  /\ bodyOverflow' = "hidden"
  /\ bodyHeight' = "100vh"
  /\ htmlOverflow' = "hidden"
  /\ stylesBefore' = StylesBeforeOpen
  /\ UNCHANGED << bodyBox, lockTimers, galleryOpen, galleryStored, galleryViewerOpen,
                  viewerOpen >>
  /\ UNCHANGED << layoutVars, heroVars, navVars, hsVars, obsVars, phaseVars, managerVars,
                  marqueeVars, clickVars >>

\* SlideUpSheet gets isOpen = false: the cleanup restores what was stored
\* (part_007 lines 99-106)
SheetCloses ==
  /\ sheetOpen
  /\ sheetOpen' = FALSE
  /\ bodyOverflow' = sheetStored.overflow
  /\ bodyHeight' = sheetStored.height
  /\ htmlOverflow' = sheetStored.htmlOverflow
  /\ UNCHANGED << bodyBox, lockTimers, galleryOpen, galleryStored, galleryViewerOpen,
                  viewerOpen, sheetStored, stylesBefore >>
  /\ UNCHANGED << layoutVars, heroVars, navVars, hsVars, obsVars, phaseVars, managerVars,
                  marqueeVars, clickVars >>

NextOverlay ==
  \/ SectionLayoutEffect
  \/ LockTimerFires
  \/ GalleryOpens
  \/ GalleryCloses
  \/ GalleryViewerToggles
  \/ ViewerToggles
  \/ SheetOpens
  \/ SheetCloses

SpecOverlay == InitOverlay /\ [][NextOverlay]_vars

(* ------------------------------ properties ----------------------------- *)

C10_OverallIsClampedScrollFraction ==
  (evaluated /\ ~isInHorizontalSection /\ maxScrollableHeight > 0) =>
    IF scrollY >= maxScrollableHeight THEN overallPageScrollProgress = Num(1)
    ELSE IF scrollY <= 0 THEN overallPageScrollProgress = Num(0)
    ELSE /\ overallPageScrollProgress.d > 0
         /\ overallPageScrollProgress.n * maxScrollableHeight
              = scrollY * overallPageScrollProgress.d

\* an evaluation strictly inside the scrollable range, outside the pinned phase
C10_Witness ==
  /\ evaluated /\ ~isInHorizontalSection
  /\ 0 < scrollY /\ scrollY < maxScrollableHeight
  /\ overallPageScrollProgress # Num(0)

\* C2 as stated: between two successive evaluations the published
\* overallPageProgress moves in the direction of the scroll offset (it is a
\* non-decreasing function of the offset, pinned or not), and when the pinned
\* phase is entered or left between two evaluations less than 1% of the
\* scroll range apart, the published value changes by less than 0.01
C2_OverallMonotoneWithoutJump ==
  [][ evaluated' =>
        /\ (evalY <= evalY' => RLe(overallPageScrollProgress, overallPageScrollProgress'))
        /\ (evalY' <= evalY => RLe(overallPageScrollProgress', overallPageScrollProgress))
        /\ ( ( /\ isInHorizontalSection' # isInHorizontalSection
               /\ maxScrollableHeight > 0
               /\ 100 * Abs(evalY' - evalY) < maxScrollableHeight )
             => RLt(RAbs(RSub(overallPageScrollProgress', overallPageScrollProgress)),
                    Rat(1, 100)) )
    ]_vars

C4_AllNumbersFinite ==
  /\ IsFinite(hsTween.xPercent)
  /\ IsFinite(hsTween.snapTo)
  /\ IsFinite(hsProgress.progress)
  /\ IsFinite(horizontalProgress.progress)
  /\ IsFinite(overallPageScrollProgress)
  /\ IsFinite(sectionProgress.percentage)

C6_OneRunPerFrame == heroRuns <= 1 /\ navRuns <= 1

C8_PushOnlyOnChange ==
  [][ /\ ("sectionProgress" \in pushed' => sectionProgress' # sectionProgress)
      /\ ("horizontalProgress" \in pushed' => horizontalProgress' # horizontalProgress)
      /\ ("hsProgress" \in pushed' => hsProgress' # hsProgress)
      /\ ("currentSection" \in pushed' => currentSection' # currentSection)
      /\ ("overallPageScrollProgress" \in pushed'
            => overallPageScrollProgress' # overallPageScrollProgress)
      /\ ("isInHorizontalSection" \in pushed'
            => isInHorizontalSection' # isInHorizontalSection) ]_vars

C11_OverallZeroWithoutScrollRange ==
  (evaluated /\ maxScrollableHeight = 0) => overallPageScrollProgress = Num(0)

\* an evaluation at a positive offset on a page that cannot scroll, with the
\* pinned phase reported active and the pin trigger present
C11_Witness ==
  /\ evaluated /\ maxScrollableHeight = 0
  /\ scrollY > 0
  /\ isInHorizontalSection /\ getMainHorizontalPinTrigger

\* C12 as stated: whenever the pinned phase is active (and the navigation
\* rail is shown), the active section is theme-<id of the panel at
\* activePanel>, the rail highlights that section, and its completion is
\* that panel's progress times 100
C12_PinnedSectionAndCompletion ==
  (heroMounted /\ isInHorizontalSection /\ isVisible) =>
     /\ currentSection = ThemeSectionId(navigationThemes[horizontalProgress.activePanel + 1].id)
     /\ sectionProgress.current = IndexOfSection(navigationConfig, currentSection) - 1
     /\ sectionProgress.percentage = RMul(horizontalProgress.progress, Num(100))

\* C13: outside the pinned phase, for an active section that has a next
\* breakpoint, the published completion is
\* 100 * (scrollOffset - section start) / (next section start - section start)
\* clamped to [0, 100], and the rail points at that section
C13_CompletionBetweenBreakpoints ==
  LET i == IndexOfSection(navigationConfig, currentSection)
  IN  (navRuns > 0 /\ ~isInHorizontalSection /\ i >= 1 /\ i < Len(navigationConfig)) =>
        LET start == navigationConfig[i].scrollPosition
            next == navigationConfig[i + 1].scrollPosition
            num == 100 * (scrollY - start)
            den == next - start
            pct == sectionProgress.percentage
        IN  /\ sectionProgress.current = i - 1
            /\ den > 0
            /\ IF num <= 0 THEN pct = Num(0)
               ELSE IF num >= 100 * den THEN pct = Num(100)
               ELSE pct.d > 0 /\ pct.n * den = num * pct.d

\* the scenario of the specification in units of a twentieth of the
\* viewport: breakpoints home 0 and theme-1 at 1.3 viewports, the offset
\* half-way between them, section home at 50%
C13_Witness ==
  /\ navRuns > 0 /\ evaluated /\ ~isInHorizontalSection
  /\ navigationConfig[2].scrollPosition = 2 * scrollY
  /\ scrollY > 0
  /\ currentSection = "home"
  /\ sectionProgress = [current |-> 0, percentage |-> Num(50)]

\* C14 as stated: outside the pinned phase, for the last section (no next
\* breakpoint) the published completion is
\* 100 * (scrollOffset - section start) / (maxScrollableHeight - section start)
\* clamped to [0, 100], so it is 100 when the page is scrolled to its
\* maximum offset
C14_LastSectionUsesRemainingDistance ==
  LET i == Len(navigationConfig)
      start == navigationConfig[i].scrollPosition
      num == 100 * (scrollY - start)
      den == maxScrollableHeight - start
      pct == sectionProgress.percentage
  IN  (navRuns > 0 /\ ~isInHorizontalSection /\ currentSection = navigationConfig[i].id
         /\ den > 0) =>
        /\ sectionProgress.current = i - 1
        /\ IF num <= 0 THEN pct = Num(0)
           ELSE IF num >= 100 * den THEN pct = Num(100)
           ELSE pct.d > 0 /\ pct.n * den = num * pct.d

\* C15: with a panel count of 0 the published panel index and panel progress
\* are 0 and nothing is divided by zero: HorizontalScroll creates no pin
\* tween and keeps its initial state, the numbers of its set-up are finite,
\* and Hero's onUpdate handler maps every reported raw progress to (0, 0)
C15_NoPanelsPublishZero ==
  hsPanels = 0 =>
    /\ ~hsTween.created
    /\ IsFinite(hsTween.xPercent) /\ IsFinite(hsTween.snapTo)
    /\ hsProgress = [activePanel |-> 0, progress |-> Num(0)]
    /\ PanelUpdate(trackerProgress, hsPanels) = [activePanel |-> 0, progress |-> Num(0)]

\* no panels, the set-up has been attempted and a positive raw progress has
\* been reported
C15_Witness ==
  /\ hsPanels = 0
  /\ hsTween = HSTweenSetup(hsPanels)
  /\ RLt(Num(0), trackerProgress)
  /\ "horizontalProgress" \in pushed

C17_BreakpointsFollowViewport ==
  [][ evaluated' => navigationConfig' = NavigationConfigFor(windowHeight') ]_vars

\* C18: while the pinned phase is active and the pin trigger exists, with
\* maxScrollableHeight > 0 and a pinned end beyond the start, the published
\* overallPageProgress is
\* start / maxScrollableHeight + rawProgress * (end - start) / maxScrollableHeight
\* clamped to [0, 1], rawProgress being the progress of the pin trigger
C18_PinnedOverallProgress ==
  LET start == PinStart(sectionTop)
      end == PinEnd(sectionTop, pinLength)
  IN  (evaluated /\ isInHorizontalSection /\ getMainHorizontalPinTrigger
         /\ maxScrollableHeight > 0 /\ end > start) =>
        overallPageScrollProgress =
          Clamp01(RAdd(Rat(start, maxScrollableHeight),
                       RMul(TriggerProgress(scrollY, start, end),
                            Rat(end - start, maxScrollableHeight))))

\* an evaluation in the pinned phase with the pin trigger part of the way
\* through its range
C18_Witness ==
  /\ evaluated /\ isInHorizontalSection /\ getMainHorizontalPinTrigger
  /\ maxScrollableHeight > 0
  /\ PinStart(sectionTop) < scrollY /\ scrollY < PinEnd(sectionTop, pinLength)
  /\ RLt(Rat(PinStart(sectionTop), maxScrollableHeight), overallPageScrollProgress)
  /\ RLt(overallPageScrollProgress, Num(1))

\* C19: for a panel count n >= 1 and a raw progress a/b in [0, 1] the
\* published panel index is min(floor(a * n / b), n - 1) and the published
\* panel progress is the fractional part of a * n / b.  Hero's handler is
\* checked on the value it published for the reported raw progress (n = 4),
\* the handler of HorizontalScroll on the same raw progress with its own
\* panel count.
C19_FloorAndFraction ==
  LET a == trackerProgress.n
      b == trackerProgress.d
      n == Len(navigationThemes)
      m == hsPanels
  IN  ("horizontalProgress" \in pushed /\ b > 0 /\ 0 <= a /\ a <= b) =>
        /\ horizontalProgress.activePanel = Min((a * n) \div b, n - 1)
        /\ horizontalProgress.progress = Rat((a * n) % b, b)
        /\ m >= 1 =>
             /\ HSPanelUpdate(trackerProgress, m).activePanel = Min((a * m) \div b, m - 1)
             /\ HSPanelUpdate(trackerProgress, m).progress = Rat((a * m) % b, b)

\* the scenario of the specification: four panels, raw progress 1/RawDen
\* (0.125), published (0, 4/RawDen) (0.5)
C19_Witness ==
  /\ "horizontalProgress" \in pushed
  /\ trackerProgress = Rat(1, RawDen)
  /\ hsPanels = Len(navigationThemes)
  /\ horizontalProgress = [activePanel |-> 0, progress |-> Rat(Len(navigationThemes), RawDen)]

\* C20 as stated: when the reported raw progress rises within [0, 1], up to
\* and including 1, the pair (active panel, progress of the active panel)
\* never moves backwards, exactly one panel is active, and the rail shows
\* every earlier panel at 100% and every later panel at 0%.  Hero's handler
\* is checked on what it published, the handler of HorizontalScroll on the
\* same two raw values with its own panel count.
C20_HandOffNeverMovesBackwards ==
  [][ ( /\ "horizontalProgress" \in pushed'
        /\ RLe(Num(0), trackerProgress)
        /\ RLe(trackerProgress, trackerProgress')
        /\ RLe(trackerProgress', Num(1)) )
      =>
      /\ horizontalProgress'.activePanel \in 0..(Len(navigationThemes) - 1)
      /\ \A i \in 1..Len(navigationThemes) :
           LET c == calculateThemeSectionCompletion(ThemeSectionId(navigationThemes[i].id),
                                                    navigationThemes, horizontalProgress')
           IN  /\ i - 1 < horizontalProgress'.activePanel => c = Num(100)
               /\ i - 1 > horizontalProgress'.activePanel => c = Num(0)
      /\ \/ horizontalProgress.activePanel < horizontalProgress'.activePanel
         \/ /\ horizontalProgress.activePanel = horizontalProgress'.activePanel
            /\ RLe(horizontalProgress.progress, horizontalProgress'.progress)
      /\ hsPanels >= 1 =>
           LET before == HSPanelUpdate(trackerProgress, hsPanels)
               after == HSPanelUpdate(trackerProgress', hsPanels)
           IN  \/ before.activePanel < after.activePanel
               \/ /\ before.activePanel = after.activePanel
                  /\ RLe(before.progress, after.progress) ]_vars

\* C21: once every asset of the Loader has fired load or error (or there are
\* no assets), the phase eventually changes from 'loader' to 'intro', also
\* for a user who prefers reduced motion.
C21_LoaderLeavesAfterAssetsSettle ==
  (phase = "loader" /\ loaderLoaded = loaderAssets) ~> (phase = "intro")

\* C22: the Intro mounted by App begins its exit 3 seconds after its
\* animation starts: the animation is never found running, not yet exiting,
\* more than 3 seconds after its start.
C22_ExitBeginsAfterThreeSeconds ==
  (phase = "intro" /\ introStage = "running") => introElapsed <= 3

\* C23: the phase starts at 'loader', moves only loader -> intro -> hero,
\* stays at 'hero', and exactly one of Loader, Intro and Hero is mounted at
\* every moment.
C23_PhaseMovesForwardOneMounted ==
  /\ phase = "loader"
  /\ [](Cardinality(MountedComponents(phase)) = 1)
  /\ [][ \/ phase' = phase
         \/ phase = "loader" /\ phase' = "intro"
         \/ phase = "intro" /\ phase' = "hero" ]_vars

C23_Witness ==
  /\ phase = "hero"
  /\ MountedComponents(phase) = {"Hero"}
  /\ loaderAssets > 0
  /\ introLoaded = loaderAssets

\* C24: for any sequence of init() and destroy() calls the scrollManager has
\* at most one ticker callback and one resize listener registered, none
\* after destroy(), and after an init() it works again (it has a Lenis and
\* is not destroyed).
C24_ManagerRegistrations ==
  /\ tickerCallbacks <= 1
  /\ resizeListeners <= 1
  /\ smIsDestroyed => (tickerCallbacks = 0 /\ resizeListeners = 0)
  /\ heroMounted => (smLenis /\ ~smIsDestroyed)

C26_ResumesAfterHover ==
  \A m \in playedHovering :
    /\ pointerOver = m => marquee[m].paused
    /\ pointerOver # m => ~marquee[m].paused

\* C27: in the marquee section an image click made while an image is
\* fullscreen or animating changes nothing, all three marquees are paused
\* while an image is fullscreen, and once the view has closed every marquee
\* the pointer is not hovering runs again.
C27_SectionPausesAndResumes ==
  /\ [](activeFlipId # "none" => \A m \in Marquees : marquee[m].paused)
  /\ []((activeFlipId = "none" /\ ~isAnimating) =>
         \A m \in Marquees : pointerOver # m => ~marquee[m].paused)
  /\ [][ (lastClick' = "ignored" /\ lastClick' # lastClick) =>
           UNCHANGED << marquee, activeFlipId, isAnimating, openTl, closeTl >> ]_vars

\* C28: a click on theme-k asks for an offset inside the pinned range whose
\* pinned progress the floor rule maps to the panel of theme k, and once
\* the page has arrived there the active panel of the tracker is that panel.
C28_ClickActivatesClickedPanel ==
  (IsThemeId(clickedSection) /\ pinTrigger) =>
    LET k == IndexOfTheme(navigationThemes, ThemeIdOf(clickedSection)) - 1
        q == TriggerProgress(targetScrollY.n, PinStart(sectionTop),
                             PinEnd(sectionTop, pinLength))
    IN  /\ targetScrollY.d = 1
        /\ PinStart(sectionTop) <= targetScrollY.n
        /\ targetScrollY.n <= PinEnd(sectionTop, pinLength)
        /\ HSPanelUpdate(q, hsPanels).activePanel = k
        /\ (scrollY = targetScrollY.n /\ horizontalTrackerST)
             => horizontalProgress.activePanel = k

\* C29: for any sequence of opening and closing the gallery, the sheet and
\* the fullscreen viewers, background scrolling is locked while an overlay
\* is open, and once all are closed the body's overflow, height, position,
\* top, left and width are what they were before the first was opened.
C29_OverlayScrollLock ==
  /\ [](AnyOverlayOpen => ScrollLocked)
  /\ [][ (AnyOverlayOpen /\ ~AnyOverlayOpen') =>
           /\ bodyOverflow' = stylesBefore.overflow
           /\ bodyHeight' = stylesBefore.height
           /\ bodyBox' = stylesBefore.box ]_vars

====
